---- MODULE Spec2Model ----
(***************************************************************************)
(* A model of ProviderPoolManager (src/src/provider-pool-manager.js): the  *)
(* pool state, selection, error/success marks, the supervisor sweep, the   *)
(* selection-triggered recovery task and the debounced persistence.        *)
(*                                                                         *)
(* Values.  JavaScript null/undefined is the string NULL.  An ISO-8601     *)
(* timestamp is the string ToISOString(t) of a clock reading t (a tick     *)
(* count); getTime() of the parsed string gives t back.  An entry is a     *)
(* record whose DOMAIN is the set of keys the JavaScript object holds.     *)
(***************************************************************************)
EXTENDS Integers, Sequences, FiniteSets, TLC

NULL == "null"

(***************************************************************************)
(* Bounds of the model.                                                    *)
(***************************************************************************)
\* The clock runs from 0 to MaxTime.
MaxTime == 4
\* The main specification explores every sequence of at most MaxSteps steps.
MaxSteps == 3
\* usageCount is explored up to MaxUsage.
MaxUsage == 2
\* errorCount is explored up to MaxError.
MaxError == 3
\* At most MaxInflight recovery tasks of one entry are in flight.
MaxInflight == 2

(***************************************************************************)
(* Constructor options (lines 28-35); every positive value is a legal      *)
(* configuration, the model runs the manager with these.                   *)
(***************************************************************************)
maxErrorCount == 2
healthCheckInterval == 1

VARIABLES
    providerStatus,   \* this.providerStatus: family -> sequence of entries (p.config)
    roundRobinIndex,  \* this.roundRobinIndex: key -> index
    pendingSaves,     \* this.pendingSaves
    saveTimer,        \* this.saveTimer: NoTimer or the deadline of the armed timer
    timers,           \* the host's armed timeouts (deadlines)
    saveDebounceTime, \* this.saveDebounceTime (fixed at construction)
    now,              \* the wall clock
    recovering,       \* (family, uuid) -> number of _tryRecoverProvider tasks awaiting their probe
    sweep,            \* performHealthChecks: NoSweep, or [now, at] while awaiting a probe
    disk,             \* the pool document on disk
    flushes,          \* the _flushPendingSaves calls suspended on file I/O
    last,             \* the last call made and what it returned
    steps,            \* history: the number of steps taken (main specification)
    marks,            \* history: per entry, the markProviderUnhealthy calls counted
    burst,            \* history: the selections made since the last mutation
    io,               \* history: the document loaded, the mutations saved and the file writes
    probe             \* the _checkProviderHealth call observed step by step, and its result

prog == <<providerStatus, roundRobinIndex, pendingSaves, saveTimer, timers,
          saveDebounceTime, now, recovering, sweep, disk, flushes, last>>

vars == <<prog, steps, marks, burst, io, probe>>

(***************************************************************************)
(* Timestamps.                                                             *)
(***************************************************************************)
IsoStrings == <<"T0", "T1", "T2", "T3", "T4", "T5", "T6", "T7", "T8", "T9">>

\* new Date().toISOString()
ToISOString(t) == IsoStrings[t + 1]

\* new Date(s).getTime()
GetTime(s) == CHOOSE t \in 0..(Len(IsoStrings) - 1) : IsoStrings[t + 1] = s

\* JavaScript truthiness of a string-or-null value
Truthy(v) == v # NULL /\ v # ""

(***************************************************************************)
(* Families, and the status fields of an entry.                            *)
(***************************************************************************)
OPENAI == "openai-custom"
CLAUDE == "claude-custom"
KIRO == "claude-kiro-oauth"

\* DEFAULT_HEALTH_CHECK_MODELS
DefaultHealthCheckModel(providerType) ==
    CASE providerType = "gemini-cli-oauth" -> "gemini-2.5-flash"
      [] providerType = "gemini-antigravity" -> "gemini-2.5-flash"
      [] providerType = "openai-custom" -> "gpt-3.5-turbo"
      [] providerType = "claude-custom" -> "claude-3-7-sonnet-20250219"
      [] providerType = "claude-kiro-oauth" -> "claude-haiku-4-5"
      [] providerType = "openai-qwen-oauth" -> "qwen3-coder-flash"
      [] providerType = "openaiResponses-custom" -> "gpt-4o-mini"
      [] OTHER -> NULL

\* The keys initializeProviderStatus defaults.
StatusKeys == {"isHealthy", "isDisabled", "lastUsed", "usageCount", "errorCount",
               "lastErrorTime", "lastHealthCheckTime", "lastHealthCheckModel",
               "lastErrorMessage", "usageInfo"}

Get(r, k, dflt) == IF k \in DOMAIN r THEN r[k] ELSE dflt

Put(r, k, v) == [x \in DOMAIN r \cup {k} |-> IF x = k THEN v ELSE r[x]]

\* lines 77-94: the defaults written into one providerConfig
InitProviderConfig(c) ==
    LET c1 == Put(c, "isHealthy", Get(c, "isHealthy", TRUE))
        c2 == Put(c1, "isDisabled", Get(c, "isDisabled", FALSE))
        c3 == Put(c2, "lastUsed", Get(c, "lastUsed", NULL))
        c4 == Put(c3, "usageCount", Get(c, "usageCount", 0))
        c5 == Put(c4, "errorCount", Get(c, "errorCount", 0))
        \* a parsed JSON document holds no Date objects: the instanceof branch is not taken
        c6 == Put(c5, "lastErrorTime",
                  IF Truthy(Get(c, "lastErrorTime", NULL)) THEN c["lastErrorTime"] ELSE NULL)
        c7 == Put(c6, "lastHealthCheckTime",
                  IF Truthy(Get(c, "lastHealthCheckTime", NULL)) THEN c["lastHealthCheckTime"] ELSE NULL)
        c8 == Put(c7, "lastHealthCheckModel",
                  IF Truthy(Get(c, "lastHealthCheckModel", NULL)) THEN c["lastHealthCheckModel"] ELSE NULL)
        c9 == Put(c8, "lastErrorMessage",
                  IF Truthy(Get(c, "lastErrorMessage", NULL)) THEN c["lastErrorMessage"] ELSE NULL)
    IN  Put(c9, "usageInfo", IF Truthy(Get(c, "usageInfo", NULL)) THEN c["usageInfo"] ELSE NULL)

\* lines 71-103
initializeProviderStatus(providerPools) ==
    [providerType \in DOMAIN providerPools |->
        [i \in 1..Len(providerPools[providerType]) |->
            InitProviderConfig(providerPools[providerType][i])]]

\* The pool document the main specification is constructed from.
MainPools ==
    (OPENAI :> << [uuid |-> "A", checkHealth |-> TRUE, notSupportedModels |-> {"gpt-4o"}],
                  [uuid |-> "B", checkHealth |-> FALSE] >>)
    @@ (CLAUDE :> << >>)

\* this.saveTimer = null (line 36): no timer handle
NoTimer == -1

NoSweep == [active |-> FALSE, now |-> 0, at |-> 0]

Range(s) == {s[i] : i \in DOMAIN s}

Min(S) == CHOOSE x \in S : \A y \in S : x <= y

\* for (const providerType in this.providerStatus): insertion order of the keys
FamilyOrder == SelectSeq(<<OPENAI, CLAUDE, KIRO>>, LAMBDA f : f \in DOMAIN providerStatus)

RECURSIVE SlotsFrom(_)
SlotsFrom(fs) ==
    IF fs = <<>> THEN <<>>
    ELSE [i \in 1..Len(providerStatus[Head(fs)]) |-> <<Head(fs), i>>] \o SlotsFrom(Tail(fs))

\* every (family, position) in the order performHealthChecks visits them (lines 338-339)
Slots == SlotsFrom(FamilyOrder)

\* the (family, uuid) pairs a recovery task can be dispatched for
RecoverKeys == {<<Slots[k][1], providerStatus[Slots[k][1]][Slots[k][2]].uuid>> : k \in DOMAIN Slots}

(***************************************************************************)
(* _findProvider (lines 58-65): the position of the first entry of the     *)
(* family with that uuid, 0 for null.                                      *)
(***************************************************************************)
FindIn(status, providerType, uuid) ==
    IF ~Truthy(providerType) \/ ~Truthy(uuid) THEN 0
    ELSE IF providerType \notin DOMAIN status THEN 0
    ELSE LET pool == status[providerType]
             hits == {i \in DOMAIN pool : pool[i].uuid = uuid}
         IN  IF hits = {} THEN 0 ELSE Min(hits)

FindProvider(providerType, uuid) == FindIn(providerStatus, providerType, uuid)

\* this.providerStatus = {} (line 25) is a plain object: a name it does not hold
\* itself is looked up on Object.prototype.
ObjectPrototypeKeys == {"constructor", "toString", "valueOf", "hasOwnProperty",
                        "isPrototypeOf", "propertyIsEnumerable", "toLocaleString", "__proto__"}

\* this.providerStatus[providerType] is an inherited member, not an entry list
Inherited(providerType) ==
    providerType \in ObjectPrototypeKeys /\ providerType \notin DOMAIN providerStatus

\* line 64: pool?.find is called on a value that has no find method
FindThrows(providerType, uuid) ==
    Truthy(providerType) /\ Truthy(uuid) /\ Inherited(providerType)

\* What the last call was and what came of it: the uuid of the entry returned
\* or acted on (NULL for a null result), and whether the call threw.
Called(op, providerType, requestedModel, uuid) ==
    [op |-> op, family |-> providerType, model |-> requestedModel, uuid |-> uuid,
     threw |-> FALSE]

Threw(op, providerType, requestedModel) ==
    [op |-> op, family |-> providerType, model |-> requestedModel, uuid |-> NULL,
     threw |-> TRUE]

(***************************************************************************)
(* _debouncedSave (lines 756-769)                                          *)
(***************************************************************************)
DebouncedSave(providerType) ==
    /\ pendingSaves' = pendingSaves \cup {providerType}
    /\ timers' = (IF saveTimer # NoTimer THEN timers \ {saveTimer} ELSE timers)
                    \cup {now + saveDebounceTime}
    /\ saveTimer' = now + saveDebounceTime

NoSave == UNCHANGED <<pendingSaves, saveTimer, timers>>

(***************************************************************************)
(* selectProvider (lines 115-197)                                          *)
(***************************************************************************)
\* a providerType that is not a string (line 117)
NotAString == "<not a string>"

\* line 117
ValidProviderType(providerType) == Truthy(providerType) /\ providerType # NotAString

\* line 122
AvailableProviders(providerType) ==
    IF providerType \in DOMAIN providerStatus THEN providerStatus[providerType] ELSE <<>>

\* a selection that skipped the isDisabled filter
AllPositions(pool) == [i \in DOMAIN pool |-> i]

\* line 125: the positions of the entries that are not disabled
NotDisabled(pool) == SelectSeq([i \in DOMAIN pool |-> i], LAMBDA i : ~pool[i].isDisabled)

\* a selection that skipped the notSupportedModels filter
SupportsAnyModel(c, requestedModel) == TRUE

\* lines 130-133
SupportsModel(c, requestedModel) ==
    IF "notSupportedModels" \notin DOMAIN c THEN TRUE
    ELSE requestedModel \notin c.notSupportedModels

\* a selection that finds no entry while a recovery probe is awaited
BusyProviders(pool, requestedModel) ==
    IF \E k \in DOMAIN recovering : recovering[k] > 0 THEN << >>
    ELSE IF Truthy(requestedModel)
    THEN SelectSeq(NotDisabled(pool), LAMBDA i : SupportsModel(pool[i], requestedModel))
    ELSE NotDisabled(pool)

\* lines 125-134: enabledProviders, as positions in the family's list
EnabledProviders(pool, requestedModel) ==
    IF Truthy(requestedModel)
    THEN SelectSeq(NotDisabled(pool), LAMBDA i : SupportsModel(pool[i], requestedModel))
    ELSE NotDisabled(pool)

\* a recovery trigger with no cool-down
AlwaysDue(c, t) == ~c.isHealthy

\* a selection that never triggers recovery
NeverDue(c, t) == FALSE

\* lines 152-154
RecoveryDue(c, t) ==
    /\ ~c.isHealthy
    /\ Truthy(c.lastErrorTime)
    /\ t - GetTime(c.lastErrorTime) >= healthCheckInterval

\* a selection with no preference for healthy entries
AllEnabled(pool, enabled) == enabled

\* lines 166-174
CandidateProviders(pool, enabled) ==
    LET healthy == SelectSeq(enabled, LAMBDA i : pool[i].isHealthy)
    IN  IF Len(healthy) = 0 THEN enabled ELSE healthy

\* one index per family, shared by every model
FamilyKey(providerType, requestedModel) == providerType

\* line 177
IndexKey(providerType, requestedModel) ==
    IF Truthy(requestedModel) THEN providerType \o ":" \o requestedModel ELSE providerType

\* line 178
CurrentIndex(indexKey) == Get(roundRobinIndex, indexKey, 0)

\* lines 181-182: the position selectProvider returns, 0 for null
SelectedPosition(providerType, requestedModel) ==
    LET pool == AvailableProviders(providerType)
        enabled == EnabledProviders(pool, requestedModel)
        candidates == CandidateProviders(pool, enabled)
    IN  IF ~ValidProviderType(providerType) \/ Len(enabled) = 0 THEN 0
        ELSE candidates[(CurrentIndex(IndexKey(providerType, requestedModel)) % Len(candidates)) + 1]

\* an index that is never advanced
StuckIndex(currentIndex, n) == currentIndex % n

\* line 185
NextIndex(currentIndex, n) == (currentIndex + 1) % n

\* a usage count that adds two
CountUsageTwice(c, t) == [c EXCEPT !.lastUsed = ToISOString(t), !.usageCount = @ + 2]

\* lines 189-190
CountUsage(c, t) == [c EXCEPT !.lastUsed = ToISOString(t), !.usageCount = @ + 1]

\* line 125: availableProviders.filter is called on a value that is not an array
SelectThrows(providerType) == ValidProviderType(providerType) /\ Inherited(providerType)

selectProvider(providerType, requestedModel, skipUsageCount) ==
    LET pool == AvailableProviders(providerType)
        enabled == EnabledProviders(pool, requestedModel)
        selected == SelectedPosition(providerType, requestedModel)
    IN  IF selected = 0
        THEN /\ last' = IF SelectThrows(providerType)
                        THEN Threw("select", providerType, requestedModel)
                        ELSE Called("select", providerType, requestedModel, NULL)
             /\ UNCHANGED <<providerStatus, roundRobinIndex, pendingSaves, saveTimer,
                            timers, saveDebounceTime, now, recovering, sweep, disk, flushes>>
        ELSE LET due == {i \in Range(enabled) : RecoveryDue(pool[i], now)}
                 \* line 158
                 pool1 == [i \in DOMAIN pool |->
                              IF i \in due
                              THEN [pool[i] EXCEPT !.lastErrorTime = ToISOString(now)]
                              ELSE pool[i]]
                 candidates == CandidateProviders(pool1, enabled)
                 indexKey == IndexKey(providerType, requestedModel)
                 pool2 == IF skipUsageCount THEN pool1
                          ELSE [pool1 EXCEPT ![selected] = CountUsage(@, now)]
             IN  /\ \A i \in due : recovering[<<providerType, pool[i].uuid>>] < MaxInflight
                 /\ skipUsageCount \/ pool[selected].usageCount < MaxUsage
                 /\ providerStatus' = [providerStatus EXCEPT ![providerType] = pool2]
                 \* line 160: _tryRecoverProvider runs up to its first await
                 /\ recovering' = [k \in DOMAIN recovering |->
                        IF k[1] = providerType /\ \E i \in due : pool[i].uuid = k[2]
                        THEN recovering[k] + 1 ELSE recovering[k]]
                 /\ roundRobinIndex' = Put(roundRobinIndex, indexKey,
                                           NextIndex(CurrentIndex(indexKey), Len(candidates)))
                 /\ IF skipUsageCount THEN NoSave ELSE DebouncedSave(providerType)
                 /\ last' = Called("select", providerType, requestedModel, pool[selected].uuid)
                 /\ UNCHANGED <<saveDebounceTime, now, sweep, disk, flushes>>

(***************************************************************************)
(* Error / success reporting and operator actions (lines 205-328).  Each   *)
(* takes the family and the uuid of the providerConfig it is handed (NULL  *)
(* when the config or its uuid is missing).                                *)
(***************************************************************************)
\* an error mark that counts and never trips
MarkUnhealthyNeverTrips(c, errorMessage, t) ==
    [c EXCEPT !.errorCount = @ + 1,
              !.lastErrorTime = ToISOString(t),
              !.lastErrorMessage = IF Truthy(errorMessage) THEN errorMessage ELSE @]

\* an error mark that trips without recording the time
MarkUnhealthyNoTime(c, errorMessage, t) ==
    LET c1 == [c EXCEPT !.errorCount = @ + 1,
                        !.lastErrorMessage = IF Truthy(errorMessage) THEN errorMessage ELSE @]
    IN  IF c1.errorCount >= maxErrorCount THEN [c1 EXCEPT !.isHealthy = FALSE] ELSE c1

\* an error mark that trips at the first error
MarkUnhealthyTripsAtOnce(c, errorMessage, t) ==
    [c EXCEPT !.errorCount = @ + 1,
              !.isHealthy = FALSE,
              !.lastErrorTime = ToISOString(t),
              !.lastErrorMessage = IF Truthy(errorMessage) THEN errorMessage ELSE @]

\* an error mark that trips one error late
MarkUnhealthyTripsLate(c, errorMessage, t) ==
    LET c1 == [c EXCEPT !.errorCount = @ + 1,
                        !.lastErrorTime = ToISOString(t),
                        !.lastErrorMessage = IF Truthy(errorMessage) THEN errorMessage ELSE @]
    IN  IF c1.errorCount > maxErrorCount THEN [c1 EXCEPT !.isHealthy = FALSE] ELSE c1

\* lines 213-226
MarkUnhealthyConfig(c, errorMessage, t) ==
    LET c1 == [c EXCEPT !.errorCount = @ + 1,
                        !.lastErrorTime = ToISOString(t),
                        !.lastErrorMessage = IF Truthy(errorMessage) THEN errorMessage ELSE @]
    IN  IF c1.errorCount >= maxErrorCount THEN [c1 EXCEPT !.isHealthy = FALSE] ELSE c1

\* a success mark that leaves the error fields alone
MarkHealthyKeepsErrors(c, resetUsageCount, healthCheckModel, t) ==
    LET c1 == [c EXCEPT !.isHealthy = TRUE, !.lastHealthCheckTime = ToISOString(t)]
    IN  IF resetUsageCount THEN [c1 EXCEPT !.usageCount = 0]
        ELSE [c1 EXCEPT !.usageCount = @ + 1, !.lastUsed = ToISOString(t)]

\* a success mark that always resets the usage count
MarkHealthyResetsUsage(c, resetUsageCount, healthCheckModel, t) ==
    [c EXCEPT !.isHealthy = TRUE,
              !.errorCount = 0,
              !.lastErrorTime = NULL,
              !.lastErrorMessage = NULL,
              !.lastHealthCheckTime = ToISOString(t),
              !.lastHealthCheckModel = IF Truthy(healthCheckModel) THEN healthCheckModel ELSE @,
              !.usageCount = 0]

\* lines 247-264
MarkHealthyConfig(c, resetUsageCount, healthCheckModel, t) ==
    LET c1 == [c EXCEPT !.isHealthy = TRUE,
                        !.errorCount = 0,
                        !.lastErrorTime = NULL,
                        !.lastErrorMessage = NULL,
                        !.lastHealthCheckTime = ToISOString(t),
                        !.lastHealthCheckModel = IF Truthy(healthCheckModel) THEN healthCheckModel ELSE @]
    IN  IF resetUsageCount THEN [c1 EXCEPT !.usageCount = 0]
        ELSE [c1 EXCEPT !.usageCount = @ + 1, !.lastUsed = ToISOString(t)]

\* a reset of the usage count only
ResetUsageOnly(c) == [c EXCEPT !.usageCount = 0]

\* lines 284-285
ResetCountersConfig(c) == [c EXCEPT !.errorCount = 0, !.usageCount = 0]

\* a disable that also clears the health fields
DisableClearsHealth(c) == [c EXCEPT !.isDisabled = TRUE, !.isHealthy = TRUE, !.errorCount = 0]

\* line 305
DisableConfig(c) == [c EXCEPT !.isDisabled = TRUE]

\* line 324
EnableConfig(c) == [c EXCEPT !.isDisabled = FALSE]

\* The handlers' common shape: look the entry up, rewrite it, schedule a save.
Update(providerType, uuid, newConfig) ==
    /\ providerStatus' = [providerStatus EXCEPT
                             ![providerType][FindProvider(providerType, uuid)] = newConfig]
    /\ DebouncedSave(providerType)

NoOp == UNCHANGED <<providerStatus, pendingSaves, saveTimer, timers>>

markProviderUnhealthy(providerType, uuid, errorMessage) ==
    LET i == FindProvider(providerType, uuid)
    IN  /\ IF i = 0 THEN NoOp
           ELSE /\ providerStatus[providerType][i].errorCount < MaxError
                /\ Update(providerType, uuid,
                          MarkUnhealthyConfig(providerStatus[providerType][i], errorMessage, now))
        /\ last' = IF FindThrows(providerType, uuid) THEN Threw("markUnhealthy", providerType, NULL)
                   ELSE Called("markUnhealthy", providerType, NULL, uuid)
        /\ UNCHANGED <<roundRobinIndex, saveDebounceTime, now, recovering, sweep, disk, flushes>>

markProviderHealthy(providerType, uuid, resetUsageCount, healthCheckModel) ==
    LET i == FindProvider(providerType, uuid)
    IN  /\ IF i = 0 THEN NoOp
           ELSE /\ resetUsageCount \/ providerStatus[providerType][i].usageCount < MaxUsage
                /\ Update(providerType, uuid,
                          MarkHealthyConfig(providerStatus[providerType][i], resetUsageCount,
                                            healthCheckModel, now))
        /\ last' = IF FindThrows(providerType, uuid) THEN Threw("markHealthy", providerType, NULL)
                   ELSE Called(IF resetUsageCount THEN "markHealthyReset" ELSE "markHealthy",
                               providerType, NULL, uuid)
        /\ UNCHANGED <<roundRobinIndex, saveDebounceTime, now, recovering, sweep, disk, flushes>>

resetProviderCounters(providerType, uuid) ==
    LET i == FindProvider(providerType, uuid)
    IN  /\ IF i = 0 THEN NoOp
           ELSE Update(providerType, uuid, ResetCountersConfig(providerStatus[providerType][i]))
        /\ last' = IF FindThrows(providerType, uuid) THEN Threw("resetCounters", providerType, NULL)
                   ELSE Called("resetCounters", providerType, NULL, uuid)
        /\ UNCHANGED <<roundRobinIndex, saveDebounceTime, now, recovering, sweep, disk, flushes>>

disableProvider(providerType, uuid) ==
    LET i == FindProvider(providerType, uuid)
    IN  /\ IF i = 0 THEN NoOp
           ELSE Update(providerType, uuid, DisableConfig(providerStatus[providerType][i]))
        /\ last' = IF FindThrows(providerType, uuid) THEN Threw("disable", providerType, NULL)
                   ELSE Called("disable", providerType, NULL, uuid)
        /\ UNCHANGED <<roundRobinIndex, saveDebounceTime, now, recovering, sweep, disk, flushes>>

enableProvider(providerType, uuid) ==
    LET i == FindProvider(providerType, uuid)
    IN  /\ IF i = 0 THEN NoOp
           ELSE Update(providerType, uuid, EnableConfig(providerStatus[providerType][i]))
        /\ last' = IF FindThrows(providerType, uuid) THEN Threw("enable", providerType, NULL)
                   ELSE Called("enable", providerType, NULL, uuid)
        /\ UNCHANGED <<roundRobinIndex, saveDebounceTime, now, recovering, sweep, disk, flushes>>

(***************************************************************************)
(* _checkProviderHealth (lines 464-531), for the families probed by a chat *)
(* request: what the probe can return.  Whether an adapter call succeeds   *)
(* is the upstream's choice.                                               *)
(***************************************************************************)
ProbeError == "upstream error"

\* lines 466-467
ProbeModelName(providerType, c) ==
    IF Truthy(Get(c, "checkModelName", NULL)) THEN c.checkModelName
    ELSE DefaultHealthCheckModel(providerType)

ProbeResult(kind, modelName, errorMessage) ==
    [kind |-> kind, modelName |-> modelName, errorMessage |-> errorMessage]

CheckProviderHealth(providerType, c, forceCheck) ==
    IF ~Get(c, "checkHealth", FALSE) /\ ~forceCheck
    THEN {ProbeResult("null", NULL, NULL)}                                   \* lines 470-472
    ELSE IF ~Truthy(ProbeModelName(providerType, c))
    THEN {ProbeResult("failure", NULL, "Unknown provider type for health check"),  \* line 505
          ProbeResult("throw", NULL, ProbeError)}
    ELSE {ProbeResult("success", ProbeModelName(providerType, c), NULL),     \* line 520
          ProbeResult("failure", ProbeModelName(providerType, c), ProbeError), \* line 530
          ProbeResult("throw", NULL, ProbeError)}                            \* lines 489-490 throw

(***************************************************************************)
(* _checkProviderHealth step by step (lines 464-531), with the quota query *)
(* _checkProviderHealthByUsage (lines 543-617) and _analyzeUsageHealth     *)
(* (lines 627-714).  The call is suspended on each adapter call; `probe`   *)
(* holds its position, what the quota query came to, how the chat request  *)
(* went, and the result it returns.                                        *)
(***************************************************************************)
\* lines 452-454; MODEL_PROVIDER.KIRO_API names the family claude-kiro-oauth
UsageBasedHealthCheckProviders == {KIRO}

\* the two formats of claude-kiro-oauth the other way round
ContentsFirst(providerType, modelName) ==
    IF providerType \in {"gemini-cli-oauth", "gemini-antigravity"} THEN <<"contents">>
    ELSE IF providerType = KIRO THEN <<"contents", "messages">>
    ELSE IF providerType = "openaiResponses-custom" THEN <<"input">>
    ELSE <<"messages">>

\* lines 397-447: the request formats tried in turn
BuildHealthCheckRequests(providerType, modelName) ==
    IF providerType \in {"gemini-cli-oauth", "gemini-antigravity"} THEN <<"contents">>
    ELSE IF providerType = KIRO THEN <<"messages", "contents">>
    ELSE IF providerType = "openaiResponses-custom" THEN <<"input">>
    ELSE <<"messages">>

\* one quota of a usage breakdown: the base quota, a free trial or a bonus
Quota(status, currentUsage, usageLimit) ==
    [status |-> status, currentUsage |-> currentUsage, usageLimit |-> usageLimit]

NoQuota == Quota("ABSENT", 0, 0)

\* lines 636-672: the quotas of the breakdowns that are counted, in order
RECURSIVE CountedQuotas(_)
CountedQuotas(usageBreakdown) ==
    IF usageBreakdown = << >> THEN << >>
    ELSE LET breakdown == Head(usageBreakdown)
         IN  <<Quota("ACTIVE", breakdown.currentUsage, breakdown.usageLimit)>>
             \o (IF breakdown.freeTrial.status = "ACTIVE" THEN <<breakdown.freeTrial>> ELSE << >>)
             \o SelectSeq(breakdown.bonuses, LAMBDA bonus : bonus.status = "ACTIVE")
             \o CountedQuotas(Tail(usageBreakdown))

RECURSIVE TotalUsed(_)
TotalUsed(quotas) ==
    IF quotas = << >> THEN 0 ELSE Head(quotas).currentUsage + TotalUsed(Tail(quotas))

RECURSIVE TotalLimit(_)
TotalLimit(quotas) ==
    IF quotas = << >> THEN 0 ELSE Head(quotas).usageLimit + TotalLimit(Tail(quotas))

\* Math.round of the non-negative quotient n / d
Round(n, d) == (2 * n + d) \div (2 * d)

\* lines 676-685: the usageInfo object, held as its text (a status field is a
\* string or null); the fields copied from the account data are left out
UsageInfo(totalUsed, totalLimit) ==
    ToString([used |-> totalUsed, limit |-> totalLimit, remaining |-> totalLimit - totalUsed,
              usagePercent |-> IF totalLimit > 0 THEN Round(totalUsed * 100, totalLimit) ELSE 0])

\* a verdict that looks at the open quotas only, not at what remains overall
AnalyzeOpenQuotaOnly(formattedUsage) ==
    LET quotas == CountedQuotas(formattedUsage.usageBreakdown)
        hasActiveQuota == \E i \in DOMAIN quotas :
                              quotas[i].usageLimit > 0 /\ quotas[i].currentUsage < quotas[i].usageLimit
    IN  [success |-> hasActiveQuota,
         errorMessage |-> IF hasActiveQuota THEN NULL ELSE "no active quota",
         usageInfo |-> UsageInfo(TotalUsed(quotas), TotalLimit(quotas))]

\* lines 627-714
AnalyzeUsageHealth(formattedUsage) ==
    LET quotas == CountedQuotas(formattedUsage.usageBreakdown)
        totalUsed == TotalUsed(quotas)
        totalLimit == TotalLimit(quotas)
        hasActiveQuota == \E i \in DOMAIN quotas :
                              quotas[i].usageLimit > 0 /\ quotas[i].currentUsage < quotas[i].usageLimit
        remaining == totalLimit - totalUsed
        isHealthy == hasActiveQuota /\ remaining > 0
    IN  [success |-> isHealthy,
         errorMessage |-> IF isHealthy THEN NULL
                          ELSE IF remaining <= 0
                          THEN "quota used up (" \o ToString(totalUsed) \o "/"
                                   \o ToString(totalLimit) \o ")"
                          ELSE "no active quota",
         usageInfo |-> UsageInfo(totalUsed, totalLimit)]

\* no adapter obtained yet, and the adapters getServiceAdapter can hand out
NoAdapter ==
    [available |-> FALSE, getUsageLimits |-> FALSE, forceRefreshToken |-> FALSE,
     refreshToken |-> FALSE]

\* a probe that prefers the plain refresh
PlainRefreshFirst(adapter) ==
    IF adapter.refreshToken THEN "refreshToken"
    ELSE IF adapter.forceRefreshToken THEN "forceRefreshToken"
    ELSE NULL

\* lines 554-571: the refresh method called before the quota query, if any
RefreshMethod(adapter) ==
    IF adapter.forceRefreshToken THEN "forceRefreshToken"
    ELSE IF adapter.refreshToken THEN "refreshToken"
    ELSE NULL

NoUsageData == [parsable |-> FALSE, usageBreakdown |-> << >>]

NoProbe ==
    [pc |-> "idle", family |-> NULL, uuid |-> NULL, forceCheck |-> FALSE, adapter |-> NoAdapter,
     refreshes |-> << >>, refreshed |-> "none",
     raw |-> NoUsageData, attempt |-> 0, sent |-> << >>, lastError |-> NULL,
     usage |-> "none", chat |-> "none",
     result |-> ProbeResult("none", NULL, NULL)]

\* the call returns (or throws) the result
Done(p, result) == [p EXCEPT !.pc = "done", !.result = result]

\* lines 503-510: the chat-send probe begins, unless no model is known
ChatStart(p, c) ==
    IF ~Truthy(ProbeModelName(p.family, c))
    THEN Done(p, ProbeResult("failure", NULL, "Unknown provider type for health check"))
    ELSE LET healthCheckRequests ==
                 BuildHealthCheckRequests(p.family, ProbeModelName(p.family, c))
         IN  [p EXCEPT !.pc = "chat", !.attempt = 1, !.sent = <<healthCheckRequests[1]>>]

\* a quota query whose error is the probe's verdict
UsageThrewFails(p, c) ==
    Done([p EXCEPT !.usage = "threw"], ProbeResult("failure", NULL, ProbeError))

\* lines 612-616 and 495-500: getUsageLimits threw, the quota query returns
\* null and the caller falls back to the chat-send probe
UsageThrew(p, c) == ChatStart([p EXCEPT !.usage = "threw"], c)

\* lines 464-500 and 545-573: up to the first adapter call awaited
ProbeStart(providerType, uuid, forceCheck, adapter) ==
    LET i == FindProvider(providerType, uuid)
        c == providerStatus[providerType][i]
        p == [NoProbe EXCEPT !.family = providerType, !.uuid = uuid,
                             !.forceCheck = forceCheck, !.adapter = adapter]
    IN  /\ probe.pc \in {"idle", "done"}
        /\ i # 0
        /\ probe' =
             IF ~Get(c, "checkHealth", FALSE) /\ ~forceCheck
             THEN Done(p, ProbeResult("null", NULL, NULL))                   \* lines 470-472
             ELSE IF ~adapter.available
             THEN Done(p, ProbeResult("throw", NULL, ProbeError))            \* line 490 throws
             ELSE IF providerType \in UsageBasedHealthCheckProviders
             THEN IF ~adapter.getUsageLimits                                 \* lines 545-547
                  THEN ChatStart([p EXCEPT !.usage = "unsupported"], c)
                  ELSE IF RefreshMethod(adapter) # NULL                      \* lines 554-571
                  THEN [p EXCEPT !.pc = "refresh", !.refreshes = <<RefreshMethod(adapter)>>]
                  ELSE [p EXCEPT !.pc = "usage"]                             \* line 573
             ELSE ChatStart(p, c)
        /\ last' = Called("probe:start", providerType, NULL, uuid)
        /\ UNCHANGED <<providerStatus, roundRobinIndex, pendingSaves, saveTimer, timers,
                       saveDebounceTime, now, recovering, sweep, disk, flushes>>

\* lines 554-573: the token refresh settles, its error is logged and dropped,
\* and getUsageLimits is called; refreshes are the refresh calls made so far
RefreshSettles(threw) ==
    /\ probe.pc = "refresh"
    /\ probe' = [probe EXCEPT !.pc = "usage", !.refreshed = IF threw THEN "failed" ELSE "ok"]
    /\ last' = Called(IF threw THEN "probe:refreshFailed" ELSE "probe:refresh",
                      probe.family, NULL, probe.uuid)
    /\ UNCHANGED <<providerStatus, roundRobinIndex, pendingSaves, saveTimer, timers,
                   saveDebounceTime, now, recovering, sweep, disk, flushes>>

\* lines 573-583: getUsageLimits settles, with the account data or an error
UsageSettles(threw, rawUsageData) ==
    LET c == providerStatus[probe.family][FindProvider(probe.family, probe.uuid)]
    IN  /\ probe.pc = "usage"
        /\ probe' = IF threw THEN UsageThrew(probe, c)
                    ELSE IF probe.family # KIRO                              \* lines 577-579
                    THEN ChatStart([probe EXCEPT !.usage = "unsupported"], c)
                    ELSE [probe EXCEPT !.pc = "import", !.raw = rawUsageData]
        /\ last' = Called(IF threw THEN "probe:usageThrew" ELSE "probe:usage",
                          probe.family, NULL, probe.uuid)
        /\ UNCHANGED <<providerStatus, roundRobinIndex, pendingSaves, saveTimer, timers,
                       saveDebounceTime, now, recovering, sweep, disk, flushes>>

\* lines 582-610: the formatter is loaded, the data analysed, the entry updated
ImportSettles ==
    LET i == FindProvider(probe.family, probe.uuid)
        healthAnalysis == AnalyzeUsageHealth(probe.raw)
        p == [probe EXCEPT !.usage = "verdict"]
    IN  /\ probe.pc = "import"
        /\ IF ~probe.raw.parsable
           THEN /\ probe' = Done(p, ProbeResult("failure", NULL, "Failed to parse usage data"))
                /\ UNCHANGED providerStatus
           ELSE /\ probe' = Done(p, ProbeResult(IF healthAnalysis.success THEN "success"
                                                ELSE "failure",
                                                NULL, healthAnalysis.errorMessage))
                /\ providerStatus' =
                     IF i = 0 THEN providerStatus
                     ELSE [providerStatus EXCEPT ![probe.family][i] =
                              [@ EXCEPT !.usageInfo = healthAnalysis.usageInfo,
                                        !.lastHealthCheckTime = ToISOString(now)]]
        /\ last' = Called("probe:verdict", probe.family, NULL, probe.uuid)
        /\ UNCHANGED <<roundRobinIndex, pendingSaves, saveTimer, timers,
                       saveDebounceTime, now, recovering, sweep, disk, flushes>>

\* line 530: lastError?.message || 'All health check attempts failed'
LastErrorMessage(message) ==
    IF Truthy(message) THEN message ELSE "All health check attempts failed"

\* lines 512-530: one generateContent call settles, resolved or rejected with
\* an error carrying the message; attempt is i + 1 and sent the requests
\* handed to the adapter so far
ChatSettles(ok, message) ==
    LET c == providerStatus[probe.family][FindProvider(probe.family, probe.uuid)]
        modelName == ProbeModelName(probe.family, c)
        healthCheckRequests == BuildHealthCheckRequests(probe.family, modelName)
    IN  /\ probe.pc = "chat"
        /\ probe' =
             IF ok THEN Done([probe EXCEPT !.chat = "ok"], ProbeResult("success", modelName, NULL))
             ELSE IF probe.attempt < Len(healthCheckRequests)
             THEN [probe EXCEPT !.attempt = @ + 1, !.lastError = message,
                                !.sent = Append(@, healthCheckRequests[probe.attempt + 1])]
             ELSE Done([probe EXCEPT !.chat = "failed", !.lastError = message],
                       ProbeResult("failure", modelName, LastErrorMessage(message)))
        /\ last' = Called(IF ok THEN "probe:chatOk" ELSE "probe:chatFailed",
                          probe.family, NULL, probe.uuid)
        /\ UNCHANGED <<providerStatus, roundRobinIndex, pendingSaves, saveTimer, timers,
                       saveDebounceTime, now, recovering, sweep, disk, flushes>>

(***************************************************************************)
(* performHealthChecks (lines 334-390).  The sweep awaits one probe at a   *)
(* time; other calls run while it waits.                                   *)
(***************************************************************************)
\* a sweep with no cool-down
NeverSkips(c, sweepNow) == FALSE

\* a sweep that passes over every unhealthy entry
SkipsUnhealthy(c, sweepNow) == ~c.isHealthy

\* lines 343-344
SweepSkips(c, sweepNow) ==
    /\ ~c.isHealthy
    /\ Truthy(c.lastErrorTime)
    /\ sweepNow - GetTime(c.lastErrorTime) < healthCheckInterval

\* the next slot at or after k the sweep probes, 0 when the loops end
NextProbe(status, k, sweepNow) ==
    LET open == {j \in DOMAIN Slots :
                    j >= k /\ ~SweepSkips(status[Slots[j][1]][Slots[j][2]], sweepNow)}
    IN  IF open = {} THEN 0 ELSE Min(open)

SweepAt(status, k, sweepNow) ==
    IF NextProbe(status, k, sweepNow) = 0 THEN NoSweep
    ELSE [active |-> TRUE, now |-> sweepNow, at |-> NextProbe(status, k, sweepNow)]

\* lines 353-387: what the sweep does to the entry at position i with the probe's result
SweepOutcome(status, providerType, i, result, t) ==
    LET c == status[providerType][i]
        found == FindIn(status, providerType, c.uuid)
    IN  IF found = 0 THEN status
        ELSE CASE result.kind = "null" ->
                    [status EXCEPT ![providerType][found] = ResetCountersConfig(@)]
               [] result.kind = "success" ->
                    [status EXCEPT ![providerType][found] =
                        MarkHealthyConfig(@, TRUE, result.modelName, t)]
               [] result.kind = "failure" ->
                    LET s1 == [status EXCEPT ![providerType][found] =
                                  MarkUnhealthyConfig(@, result.errorMessage, t)]
                    IN  [s1 EXCEPT ![providerType][i] =
                            [@ EXCEPT !.lastHealthCheckTime = ToISOString(t),
                                      !.lastHealthCheckModel =
                                          IF Truthy(result.modelName) THEN result.modelName ELSE @]]
               [] result.kind = "throw" ->
                    [status EXCEPT ![providerType][found] =
                        MarkUnhealthyConfig(@, result.errorMessage, t)]

performHealthChecks ==
    /\ ~sweep.active
    /\ sweep' = SweepAt(providerStatus, 1, now)
    /\ last' = Called("sweepStart", NULL, NULL, NULL)
    /\ UNCHANGED <<providerStatus, roundRobinIndex, pendingSaves, saveTimer, timers,
                   saveDebounceTime, now, recovering, disk, flushes>>

SweepProbeDone(result) ==
    /\ sweep.active
    /\ LET providerType == Slots[sweep.at][1]
           i == Slots[sweep.at][2]
           c == providerStatus[providerType][i]
           status == SweepOutcome(providerStatus, providerType, i, result, now)
       IN  /\ result \in CheckProviderHealth(providerType, c, FALSE)
           /\ result.kind \in {"failure", "throw"} => c.errorCount < MaxError
           /\ providerStatus' = status
           /\ IF FindProvider(providerType, c.uuid) = 0 THEN NoSave
              ELSE DebouncedSave(providerType)
           /\ sweep' = SweepAt(status, sweep.at + 1, sweep.now)
           /\ last' = Called("sweep:" \o result.kind, providerType, NULL, c.uuid)
    /\ UNCHANGED <<roundRobinIndex, saveDebounceTime, now, recovering, disk, flushes>>

(***************************************************************************)
(* _tryRecoverProvider (lines 721-749), from the probe's result on.        *)
(***************************************************************************)
\* a failed recovery that counts as one more error
RecoveryFailedCounts(c, result, t) ==
    [c EXCEPT !.errorCount = @ + 1,
              !.lastErrorMessage = result.errorMessage,
              !.lastHealthCheckTime = ToISOString(t)]

\* lines 736-742
RecoveryFailedConfig(c, result, t) ==
    [c EXCEPT !.lastErrorMessage = result.errorMessage,
              !.lastHealthCheckTime = ToISOString(t),
              !.lastHealthCheckModel = IF Truthy(result.modelName) THEN result.modelName ELSE @]

RecoverDone(providerType, uuid, result) ==
    LET i == FindProvider(providerType, uuid)
    IN  /\ <<providerType, uuid>> \in DOMAIN recovering
        /\ recovering[<<providerType, uuid>>] > 0
        /\ i # 0
        /\ result \in CheckProviderHealth(providerType, providerStatus[providerType][i], TRUE)
        /\ recovering' = [recovering EXCEPT ![<<providerType, uuid>>] = @ - 1]
        /\ CASE result.kind = "success" ->
                    /\ providerStatus[providerType][i].usageCount < MaxUsage
                    /\ Update(providerType, uuid,
                              MarkHealthyConfig(providerStatus[providerType][i], FALSE,
                                                result.modelName, now))
             [] result.kind = "failure" ->
                    Update(providerType, uuid,
                           RecoveryFailedConfig(providerStatus[providerType][i], result, now))
             [] OTHER -> NoOp
        /\ last' = Called("recover:" \o result.kind, providerType, NULL, uuid)
        /\ UNCHANGED <<roundRobinIndex, saveDebounceTime, now, sweep, disk, flushes>>

(***************************************************************************)
(* The clock.  A timeout fires at its deadline, before time moves on.      *)
(***************************************************************************)
Tick ==
    /\ now < MaxTime
    /\ \A d \in timers : now < d
    /\ now' = now + 1
    /\ last' = Called("tick", NULL, NULL, NULL)
    /\ UNCHANGED <<providerStatus, roundRobinIndex, pendingSaves, saveTimer, timers,
                   saveDebounceTime, recovering, sweep, disk, flushes>>

(***************************************************************************)
(* _flushPendingSaves (lines 775-826).  The flush is suspended twice: on   *)
(* the file read and on the file write.  The document it writes is built   *)
(* from the memory of the moment the read completes.                       *)
(***************************************************************************)
\* At most MaxFlushes flushes are suspended at a time.
MaxFlushes == 2

NoFile == [exists |-> FALSE, pools |-> <<>>]

File(pools) == [exists |-> TRUE, pools |-> pools]

\* a copy that keeps only the fields the manager knows
KnownKeysOnly(c) == [k \in DOMAIN c \cap (StatusKeys \cup {"uuid"}) |-> c[k]]

\* lines 803-813: the copy of p.config; the manager stores timestamps as ISO
\* strings, so no field is a Date and the copy carries every key over
SavedConfig(c) == [k \in DOMAIN c |-> c[k]]

\* a flush that writes back the document it read
StalePools(currentPools, typesToSave) == currentPools

\* a flush that writes the saved families and nothing else
MemoryOnlyPools(currentPools, typesToSave) ==
    [providerType \in typesToSave \cap DOMAIN providerStatus |->
        [i \in DOMAIN providerStatus[providerType] |->
            SavedConfig(providerStatus[providerType][i])]]

\* lines 799-818
UpdatedPools(currentPools, typesToSave) ==
    LET written == {providerType \in typesToSave : providerType \in DOMAIN providerStatus}
    IN  [providerType \in DOMAIN currentPools \cup written |->
            IF providerType \in written
            THEN [i \in DOMAIN providerStatus[providerType] |->
                     SavedConfig(providerStatus[providerType][i])]
            ELSE currentPools[providerType]]

\* lines 766-768 and 776-780: the timeout fires and the flush starts
FlushStart(deadline) ==
    /\ deadline \in timers
    /\ now >= deadline
    /\ timers' = timers \ {deadline}
    /\ IF pendingSaves = {}
       THEN UNCHANGED <<pendingSaves, saveTimer, flushes>>
       ELSE /\ Len(flushes) < MaxFlushes
            /\ pendingSaves' = {}
            /\ saveTimer' = NoTimer
            /\ flushes' = Append(flushes, [typesToSave |-> pendingSaves, stage |-> "read",
                                           content |-> <<>>])
    /\ last' = Called("flushStart", NULL, NULL, NULL)
    /\ UNCHANGED <<providerStatus, roundRobinIndex, saveDebounceTime, now, recovering,
                   sweep, disk>>

ReadOutcomes == IF disk.exists THEN {"ok", "error"} ELSE {"ENOENT", "error"}

WriteOutcomes == {"ok", "error"}

RemoveAt(seq, i) == [j \in 1..(Len(seq) - 1) |-> IF j < i THEN seq[j] ELSE seq[j + 1]]

\* lines 787-821: readFile settles; on success the document is rebuilt and writeFile is called
FlushRead(i, outcome) ==
    /\ i \in DOMAIN flushes
    /\ flushes[i].stage = "read"
    /\ outcome \in ReadOutcomes
    /\ flushes' = IF outcome = "error" THEN RemoveAt(flushes, i)
                  ELSE [flushes EXCEPT ![i] =
                           [typesToSave |-> @.typesToSave, stage |-> "write",
                            content |-> UpdatedPools(IF outcome = "ok" THEN disk.pools ELSE <<>>,
                                                     @.typesToSave)]]
    /\ last' = Called("flushRead:" \o outcome, NULL, NULL, NULL)
    /\ UNCHANGED <<providerStatus, roundRobinIndex, pendingSaves, saveTimer, timers,
                   saveDebounceTime, now, recovering, sweep, disk>>

\* lines 821-825: writeFile settles
FlushWrite(i, outcome) ==
    /\ i \in DOMAIN flushes
    /\ flushes[i].stage = "write"
    /\ outcome \in WriteOutcomes
    /\ disk' = IF outcome = "ok" THEN File(flushes[i].content) ELSE disk
    /\ flushes' = RemoveAt(flushes, i)
    /\ last' = Called("flushWrite:" \o outcome, NULL, NULL, NULL)
    /\ UNCHANGED <<providerStatus, roundRobinIndex, pendingSaves, saveTimer, timers,
                   saveDebounceTime, now, recovering, sweep>>

(***************************************************************************)
(* Construction (lines 22-40) from a pool document, with the document on   *)
(* disk and a saveDebounceTime option.                                     *)
(***************************************************************************)
Constructed(providerPools, file, debounce) ==
    /\ providerStatus = initializeProviderStatus(providerPools)
    /\ roundRobinIndex = [providerType \in DOMAIN providerPools |-> 0]   \* line 74
    /\ pendingSaves = {}
    /\ saveTimer = NoTimer
    /\ timers = {}
    /\ saveDebounceTime = debounce
    /\ now = 0
    /\ recovering = [k \in RecoverKeys |-> 0]
    /\ sweep = NoSweep
    /\ disk = file
    /\ flushes = <<>>
    /\ last = Called("construct", NULL, NULL, NULL)

(***************************************************************************)
(* The main specification: the manager constructed from a pool document of *)
(* one family of two entries and one empty family, each entry either fresh *)
(* or persisted unhealthy, and then every sequence of at most MaxSteps     *)
(* calls, probe completions and clock ticks.  saveDebounceTime exceeds the *)
(* clock's range: no flush runs here.                                      *)
(***************************************************************************)
\* an entry as an earlier run persisted it after maxErrorCount errors
PersistedUnhealthy(c) ==
    [isHealthy |-> FALSE, errorCount |-> maxErrorCount, lastErrorTime |-> ToISOString(0),
     lastErrorMessage |-> "timeout"] @@ c

MainDocs ==
    {(OPENAI :> <<a, b>>) @@ (CLAUDE :> << >>) :
        a \in {MainPools[OPENAI][1], PersistedUnhealthy(MainPools[OPENAI][1])},
        b \in {MainPools[OPENAI][2], PersistedUnhealthy(MainPools[OPENAI][2])}}

Models == {NULL, "gpt-4o"}
Families == {OPENAI, CLAUDE, "absent-family", "constructor", NULL}
CallFamilies == {OPENAI, "constructor"}
CallUuids == {"A", "B", NULL}
Messages == {NULL, "timeout"}
ProbeResults ==
    {ProbeResult(kind, modelName, errorMessage) :
        kind \in {"null", "success", "failure", "throw"},
        modelName \in {NULL, DefaultHealthCheckModel(OPENAI)},
        errorMessage \in {NULL, ProbeError, "Unknown provider type for health check"}}

NoMarks == [sinceHealthy |-> 0, sinceReset |-> 0]

\* nothing scheduled, nothing written since the document was loaded; dropped
\* holds the families of the last flush that failed
NoIo(file) == [loaded |-> file, mutations |-> 0, first |-> 0, latest |-> 0, touched |-> {},
               writes |-> 0, failed |-> FALSE, saved |-> {}, overlapped |-> FALSE,
               dropped |-> {}]

\* no selection made yet
NoBurst == [k |-> 0, model |-> NULL, mixed |-> FALSE, counts |-> <<>>, prev |-> NULL,
            inOrder |-> TRUE, inKeyOrder |-> TRUE]

\* the markProviderUnhealthy calls made for each entry since the last
\* markProviderHealthy for it, and since the last such call or counter reset
MarksAfter(l) ==
    [k \in DOMAIN marks |->
        IF l.threw \/ k # <<l.family, l.uuid>> THEN marks[k]
        ELSE IF l.op \in {"markUnhealthy", "sweep:failure", "sweep:throw"}
        THEN [sinceHealthy |-> marks[k].sinceHealthy + 1, sinceReset |-> marks[k].sinceReset + 1]
        ELSE IF l.op \in {"markHealthy", "markHealthyReset", "sweep:success", "recover:success"}
        THEN NoMarks
        ELSE IF l.op \in {"resetCounters", "sweep:null"}
        THEN [marks[k] EXCEPT !.sinceReset = 0]
        ELSE marks[k]]

Init ==
    /\ \E d \in MainDocs : Constructed(d, File(d), MaxTime + 1)
    /\ steps = 0
    /\ marks = [k \in RecoverKeys |-> NoMarks]
    /\ burst = NoBurst
    /\ io = NoIo(disk)
    /\ probe = NoProbe

\* one more step is allowed
Budget == steps < MaxSteps

\* the history variables after a step
Advance ==
    /\ steps' = steps + 1
    /\ marks' = MarksAfter(last')
    /\ UNCHANGED <<burst, io, probe>>

Select ==
    /\ Budget
    /\ \E providerType \in Families, requestedModel \in Models, skipUsageCount \in BOOLEAN :
           selectProvider(providerType, requestedModel, skipUsageCount)
    /\ Advance

MarkUnhealthy ==
    /\ Budget
    /\ \E providerType \in CallFamilies, uuid \in CallUuids, errorMessage \in Messages :
           markProviderUnhealthy(providerType, uuid, errorMessage)
    /\ Advance

MarkHealthy ==
    /\ Budget
    /\ \E providerType \in CallFamilies, uuid \in CallUuids, resetUsageCount \in BOOLEAN,
          healthCheckModel \in {"gpt-4"} :
           markProviderHealthy(providerType, uuid, resetUsageCount, healthCheckModel)
    /\ Advance

ResetCounters ==
    /\ Budget
    /\ \E providerType \in CallFamilies, uuid \in CallUuids : resetProviderCounters(providerType, uuid)
    /\ Advance

Disable ==
    /\ Budget
    /\ \E providerType \in CallFamilies, uuid \in CallUuids : disableProvider(providerType, uuid)
    /\ Advance

Enable ==
    /\ Budget
    /\ \E providerType \in CallFamilies, uuid \in CallUuids : enableProvider(providerType, uuid)
    /\ Advance

SweepStart == Budget /\ performHealthChecks /\ Advance

SweepStep == Budget /\ (\E result \in ProbeResults : SweepProbeDone(result)) /\ Advance

Recover ==
    /\ Budget
    /\ \E k \in DOMAIN recovering, result \in ProbeResults : RecoverDone(k[1], k[2], result)
    /\ Advance

Clock == Budget /\ Tick /\ Advance

Next ==
    \/ Select
    \/ MarkUnhealthy
    \/ MarkHealthy
    \/ ResetCounters
    \/ Disable
    \/ Enable
    \/ SweepStart
    \/ SweepStep
    \/ Recover
    \/ Clock

Spec == Init /\ [][Next]_vars

(***************************************************************************)
(* The round-robin specification: a family of three entries (the first     *)
(* lists one model as not supported) and a family of one, each entry of    *)
(* the first family fresh or persisted unhealthy; then every sequence of   *)
(* at most MaxRRSteps selections, disables and enables.  burst records the *)
(* selections on the first family since the last disable or enable.        *)
(***************************************************************************)
\* The round-robin specification explores sequences of at most MaxRRSteps steps.
MaxRRSteps == 5
\* A burst of selections is followed up to MaxBurst calls.
MaxBurst == 3

RRPools ==
    (OPENAI :> << [uuid |-> "A", notSupportedModels |-> {"gpt-4o"}],
                  [uuid |-> "B"],
                  [uuid |-> "C"] >>)
    @@ (CLAUDE :> << [uuid |-> "D"] >>)

RRDocs ==
    {(OPENAI :> <<a, b, c>>) @@ (CLAUDE :> RRPools[CLAUDE]) :
        a \in {RRPools[OPENAI][1], PersistedUnhealthy(RRPools[OPENAI][1])},
        b \in {RRPools[OPENAI][2], PersistedUnhealthy(RRPools[OPENAI][2])},
        c \in {RRPools[OPENAI][3], PersistedUnhealthy(RRPools[OPENAI][3])}}

RRCalls == {<<OPENAI, NULL>>, <<OPENAI, "gpt-4o">>, <<CLAUDE, NULL>>}

\* the positions of the family's healthy enabled entries that support the model
HealthySupporting(providerType, model) ==
    {i \in DOMAIN providerStatus[providerType] :
        /\ providerStatus[providerType][i].isHealthy
        /\ ~providerStatus[providerType][i].isDisabled
        /\ Truthy(model) =>
               ~("notSupportedModels" \in DOMAIN providerStatus[providerType][i]
                 /\ model \in providerStatus[providerType][i].notSupportedModels)}

\* the position after i in the cyclic list order of S
After(S, i) == IF \E j \in S : j > i THEN Min({j \in S : j > i}) ELSE Min(S)

\* uuid follows prev in the cyclic list order of the entries at the positions S
Follows(S, prev, uuid) ==
    \/ prev = NULL
    \/ S = {}
    \/ /\ FindProvider(OPENAI, prev) \in S
       /\ FindProvider(OPENAI, uuid) = After(S, FindProvider(OPENAI, prev))

\* the burst after a selection on the first family
BurstAfter(l) ==
    IF l.op # "select" \/ l.family # OPENAI THEN burst
    ELSE [k |-> burst.k + 1,
          model |-> IF burst.k = 0 THEN l.model ELSE burst.model,
          mixed |-> burst.mixed \/ (burst.k > 0 /\ l.model # burst.model),
          counts |-> IF l.uuid = NULL THEN burst.counts
                     ELSE Put(burst.counts, l.uuid, Get(burst.counts, l.uuid, 0) + 1),
          prev |-> l.uuid,
          inOrder |-> burst.inOrder /\ l.uuid # NULL
                          /\ Follows(HealthySupporting(OPENAI, NULL), burst.prev, l.uuid),
          inKeyOrder |-> burst.inKeyOrder /\ l.uuid # NULL
                          /\ Follows(HealthySupporting(OPENAI, l.model), burst.prev, l.uuid)]

InitRR ==
    /\ \E d \in RRDocs : Constructed(d, File(d), MaxTime + 1)
    /\ steps = 0
    /\ marks = [k \in RecoverKeys |-> NoMarks]
    /\ burst = NoBurst
    /\ io = NoIo(disk)
    /\ probe = NoProbe

SelectRR ==
    /\ steps < MaxRRSteps
    /\ \E call \in RRCalls, skipUsageCount \in BOOLEAN :
           /\ call[1] = OPENAI => burst.k < MaxBurst
           /\ selectProvider(call[1], call[2], skipUsageCount)
    /\ steps' = steps + 1
    /\ burst' = BurstAfter(last')
    /\ UNCHANGED <<marks, io, probe>>

DisableRR ==
    /\ steps < MaxRRSteps
    /\ \E uuid \in {"A", "B", "C"} : disableProvider(OPENAI, uuid)
    /\ steps' = steps + 1
    /\ burst' = NoBurst
    /\ UNCHANGED <<marks, io, probe>>

EnableRR ==
    /\ steps < MaxRRSteps
    /\ \E uuid \in {"A", "B", "C"} : enableProvider(OPENAI, uuid)
    /\ steps' = steps + 1
    /\ burst' = NoBurst
    /\ UNCHANGED <<marks, io, probe>>

NextRR ==
    \/ SelectRR
    \/ DisableRR
    \/ EnableRR

SpecRR == InitRR /\ [][NextRR]_vars

(***************************************************************************)
(* The persistence specification: two families of one entry each, the pool *)
(* document on disk or no file yet, a saveDebounceTime of SaveDebounce     *)
(* ticks; then at most MaxMutations selections and disables, clock ticks,  *)
(* the timer firing and the file reads and writes settling either way.     *)
(***************************************************************************)
\* options.saveDebounceTime (line 35) in the persistence specifications
SaveDebounce == 2
\* At most MaxMutations mutating calls are made.
MaxMutations == 3

SavePools ==
    (OPENAI :> << InitProviderConfig([uuid |-> "A"]) >>)
    @@ (CLAUDE :> << InitProviderConfig([uuid |-> "D"]) >>)

\* a call that scheduled a save of the family
Mutated(providerType) ==
    io' = [io EXCEPT !.mutations = @ + 1,
                     !.first = IF io.mutations = 0 THEN now ELSE @,
                     !.latest = now,
                     !.touched = @ \cup {providerType}]

InitSave ==
    /\ \E file \in {File(SavePools), NoFile} : Constructed(SavePools, file, SaveDebounce)
    /\ steps = 0
    /\ marks = [k \in RecoverKeys |-> NoMarks]
    /\ burst = NoBurst
    /\ io = NoIo(disk)
    /\ probe = NoProbe

SelectSave ==
    /\ io.mutations < MaxMutations
    /\ \E providerType \in {OPENAI, CLAUDE} :
           /\ selectProvider(providerType, NULL, FALSE)
           /\ Mutated(providerType)
    /\ UNCHANGED <<steps, marks, burst, probe>>

DisableSave ==
    /\ io.mutations < MaxMutations
    /\ disableProvider(OPENAI, "A")
    /\ Mutated(OPENAI)
    /\ UNCHANGED <<steps, marks, burst, probe>>

ClockSave == Tick /\ UNCHANGED <<steps, marks, burst, io, probe>>

\* a flush that starts while an earlier one is suspended is recorded
TimerFires ==
    /\ \E deadline \in timers : FlushStart(deadline)
    /\ io' = [io EXCEPT !.overlapped = @ \/ (pendingSaves # {} /\ flushes # << >>)]
    /\ UNCHANGED <<steps, marks, burst, probe>>

ReadSettles ==
    /\ \E i \in DOMAIN flushes, outcome \in {"ok", "ENOENT", "error"} :
           /\ FlushRead(i, outcome)
           /\ io' = [io EXCEPT !.failed = @ \/ outcome = "error",
                               !.dropped = IF outcome = "error" THEN flushes[i].typesToSave
                                           ELSE @]
    /\ UNCHANGED <<steps, marks, burst, probe>>

WriteSettles ==
    /\ \E i \in DOMAIN flushes, outcome \in {"ok", "error"} :
           /\ FlushWrite(i, outcome)
           /\ io' = [io EXCEPT !.failed = @ \/ outcome = "error",
                               !.dropped = IF outcome = "error" THEN flushes[i].typesToSave
                                           ELSE @,
                               !.writes = IF outcome = "ok" THEN @ + 1 ELSE @,
                               !.saved = IF outcome = "ok"
                                         THEN @ \cup (flushes[i].typesToSave
                                                         \cap DOMAIN providerStatus)
                                         ELSE @]
    /\ UNCHANGED <<steps, marks, burst, probe>>

NextSave ==
    \/ SelectSave
    \/ DisableSave
    \/ ClockSave
    \/ TimerFires
    \/ ReadSettles
    \/ WriteSettles

SpecSave == InitSave /\ [][NextSave]_vars

(***************************************************************************)
(* The round-trip specification: a persisted document of two families is   *)
(* loaded, then every family is scheduled for saving by calls that change  *)
(* no field (enableProvider on an entry that is enabled), and the flushes  *)
(* run.  The document also holds a top-level key that names no family; the *)
(* manager is constructed from the document's families.                    *)
(***************************************************************************)
\* generatePoolEntry of scripts/clean-kiro-configs.js (lines 112-140)
GeneratedEntry ==
    [KIRO_OAUTH_CREDS_FILE_PATH |-> "configs/kiro/1.json", uuid |-> "K",
     _comment |-> "Email: a@b | Added: unknown",
     checkModelName |-> "claude-haiku-4-5", checkHealth |-> TRUE,
     isHealthy |-> TRUE, isDisabled |-> FALSE, lastUsed |-> NULL, usageCount |-> 0,
     errorCount |-> 0, lastErrorTime |-> NULL, lastHealthCheckTime |-> NULL,
     lastHealthCheckModel |-> NULL, lastErrorMessage |-> NULL]

\* the entries a persisted document may hold: hand-written with no status
\* field, as the import script generates it, as the manager saved it, and
\* saved with an empty error message
RTEntries ==
    {[uuid |-> "K", _originalId |-> "k-1"],
     GeneratedEntry,
     InitProviderConfig(GeneratedEntry),
     [InitProviderConfig(GeneratedEntry) EXCEPT !.lastErrorMessage = ""]}

TopLevelNote == "_comment"

RTFamilies(entry) ==
    (KIRO :> <<entry>>) @@ (OPENAI :> << InitProviderConfig([uuid |-> "A", _comment |-> "main"]) >>)

RTFile(entry) == File(RTFamilies(entry) @@ (TopLevelNote :> "edited by hand"))

InitRoundTrip ==
    /\ \E entry \in RTEntries : Constructed(RTFamilies(entry), RTFile(entry), SaveDebounce)
    /\ steps = 0
    /\ marks = [k \in RecoverKeys |-> NoMarks]
    /\ burst = NoBurst
    /\ io = NoIo(disk)
    /\ probe = NoProbe

\* the entry a (family, uuid) pair names
EntryAt(k) == providerStatus[k[1]][FindIn(providerStatus, k[1], k[2])]

\* enableProvider on an entry that is enabled: no field changes, a save is scheduled
TouchRoundTrip ==
    /\ io.mutations < MaxMutations
    /\ \E k \in RecoverKeys :
           /\ ~EntryAt(k).isDisabled
           /\ enableProvider(k[1], k[2])
           /\ Mutated(k[1])
    /\ UNCHANGED <<steps, marks, burst, probe>>

NextRoundTrip ==
    \/ TouchRoundTrip
    \/ ClockSave
    \/ TimerFires
    \/ ReadSettles
    \/ WriteSettles

SpecRoundTrip == InitRoundTrip /\ [][NextRoundTrip]_vars

(***************************************************************************)
(* The flush specification: the two families of the persistence            *)
(* specification in memory; on disk no file, or a document that also holds *)
(* a top-level note and a family the manager was not constructed with.     *)
(* Saves are scheduled by selections and by calling _debouncedSave with    *)
(* that family, which has no pool in memory.                               *)
(***************************************************************************)
FlushFile ==
    File(SavePools @@ (KIRO :> << InitProviderConfig([uuid |-> "K"]) >>)
                   @@ (TopLevelNote :> "edited by hand"))

InitFlush ==
    /\ \E file \in {FlushFile, NoFile} : Constructed(SavePools, file, SaveDebounce)
    /\ steps = 0
    /\ marks = [k \in RecoverKeys |-> NoMarks]
    /\ burst = NoBurst
    /\ io = NoIo(disk)
    /\ probe = NoProbe

SelectFlush ==
    /\ io.mutations < MaxMutations
    /\ \E providerType \in {OPENAI, CLAUDE} :
           /\ selectProvider(providerType, NULL, FALSE)
           /\ Mutated(providerType)
    /\ UNCHANGED <<steps, marks, burst, probe>>

\* _debouncedSave called with a family that has no pool
SaveUnknown ==
    /\ io.mutations < MaxMutations
    /\ DebouncedSave(KIRO)
    /\ last' = Called("debouncedSave", KIRO, NULL, NULL)
    /\ UNCHANGED <<providerStatus, roundRobinIndex, saveDebounceTime, now, recovering,
                   sweep, disk, flushes>>
    /\ Mutated(KIRO)
    /\ UNCHANGED <<steps, marks, burst, probe>>

NextFlush ==
    \/ SelectFlush
    \/ SaveUnknown
    \/ ClockSave
    \/ TimerFires
    \/ ReadSettles
    \/ WriteSettles

SpecFlush == InitFlush /\ [][NextFlush]_vars

(***************************************************************************)
(* The persistence specification with the host's scheduling: time passes,  *)
(* a timeout that is due fires, and a file read or write that was started  *)
(* settles.  A selection is made only while its timeout falls within the   *)
(* clock's range.                                                          *)
(***************************************************************************)
SelectLive ==
    /\ io.mutations < MaxMutations
    /\ now + saveDebounceTime <= MaxTime
    /\ \E providerType \in {OPENAI, CLAUDE} :
           /\ selectProvider(providerType, NULL, FALSE)
           /\ Mutated(providerType)
    /\ UNCHANGED <<steps, marks, burst, probe>>

NextSaveLive ==
    \/ SelectLive
    \/ ClockSave
    \/ TimerFires
    \/ ReadSettles
    \/ WriteSettles

SpecSaveLive ==
    /\ InitSave
    /\ [][NextSaveLive]_vars
    /\ WF_vars(ClockSave)
    /\ WF_vars(TimerFires)
    /\ WF_vars(ReadSettles)
    /\ WF_vars(WriteSettles)

(***************************************************************************)
(* The recovery specification: the manager constructed as in the main      *)
(* specification, then selections on the family, clock ticks and the       *)
(* completions of the recovery probes, in any order and number: a probe    *)
(* may outlast any number of ticks and selections.                         *)
(***************************************************************************)
InitRecover ==
    /\ \E d \in MainDocs : Constructed(d, File(d), MaxTime + 1)
    /\ steps = 0
    /\ marks = [k \in RecoverKeys |-> NoMarks]
    /\ burst = NoBurst
    /\ io = NoIo(disk)
    /\ probe = NoProbe

\* one probe result of each kind
RecoverResults ==
    {ProbeResult("null", NULL, NULL), ProbeResult("throw", NULL, ProbeError),
     ProbeResult("success", DefaultHealthCheckModel(OPENAI), NULL),
     ProbeResult("failure", DefaultHealthCheckModel(OPENAI), ProbeError)}

SelectRecover ==
    /\ \E requestedModel \in Models : selectProvider(OPENAI, requestedModel, TRUE)
    /\ UNCHANGED <<steps, marks, burst, io, probe>>

ClockRecover == Tick /\ UNCHANGED <<steps, marks, burst, io, probe>>

RecoverSettles ==
    /\ \E k \in DOMAIN recovering, result \in RecoverResults : RecoverDone(k[1], k[2], result)
    /\ UNCHANGED <<steps, marks, burst, io, probe>>

NextRecover ==
    \/ SelectRecover
    \/ ClockRecover
    \/ RecoverSettles

SpecRecover == InitRecover /\ [][NextRecover]_vars

(***************************************************************************)
(* The same with every recovery probe succeeding, the clock advancing,     *)
(* untargeted selections on the family recurring and every probe           *)
(* completing: the host's event loop runs each pending continuation.       *)
(***************************************************************************)
SelectAgain ==
    /\ selectProvider(OPENAI, NULL, TRUE)
    /\ UNCHANGED <<steps, marks, burst, io, probe>>

SelectTargeted ==
    /\ selectProvider(OPENAI, "gpt-4o", TRUE)
    /\ UNCHANGED <<steps, marks, burst, io, probe>>

RecoverSucceeds ==
    /\ \E k \in DOMAIN recovering, result \in RecoverResults :
           /\ result.kind = "success"
           /\ RecoverDone(k[1], k[2], result)
    /\ UNCHANGED <<steps, marks, burst, io, probe>>

NextRecoverLive ==
    \/ SelectAgain
    \/ SelectTargeted
    \/ ClockRecover
    \/ RecoverSucceeds

SpecRecoverLive ==
    /\ InitRecover
    /\ [][NextRecoverLive]_vars
    /\ WF_vars(ClockRecover)
    /\ WF_vars(SelectAgain)
    /\ WF_vars(RecoverSucceeds)

(***************************************************************************)
(* The probe specification: a pool of one claude-kiro-oauth entry and one  *)
(* openai-custom entry, probed one call at a time with any adapter, any    *)
(* outcome of each adapter call and any time between them.                 *)
(***************************************************************************)
ProbePools ==
    {(KIRO :> <<[uuid |-> "K", checkHealth |-> h]>>) @@ (OPENAI :> <<[uuid |-> "A"]>>) :
        h \in BOOLEAN}

Adapters ==
    {NoAdapter} \cup
    {[available |-> TRUE, getUsageLimits |-> g, forceRefreshToken |-> f, refreshToken |-> r] :
        g \in BOOLEAN, f \in BOOLEAN, r \in BOOLEAN}

Breakdown(currentUsage, usageLimit, freeTrial, bonuses) ==
    [currentUsage |-> currentUsage, usageLimit |-> usageLimit, freeTrial |-> freeTrial,
     bonuses |-> bonuses]

\* account data: unparsable, no quota, an open quota, a used-up quota (1 of 1
\* and 100 of 100), a used-up quota with an open free trial, with an expired one, with an open
\* bonus, and an open quota beside an overdrawn one
UsageData ==
    {NoUsageData} \cup
    {[parsable |-> TRUE, usageBreakdown |-> b] :
        b \in {<< >>,
               <<Breakdown(0, 1, NoQuota, << >>)>>,
               <<Breakdown(1, 1, NoQuota, << >>)>>,
               <<Breakdown(100, 100, NoQuota, << >>)>>,
               <<Breakdown(1, 1, Quota("ACTIVE", 0, 1), << >>)>>,
               <<Breakdown(1, 1, Quota("EXPIRED", 0, 1), << >>)>>,
               <<Breakdown(1, 1, NoQuota, <<Quota("ACTIVE", 1, 2)>>)>>,
               <<Breakdown(0, 1, NoQuota, << >>), Breakdown(2, 1, NoQuota, << >>)>>}}

InitProbe ==
    /\ \E d \in ProbePools : Constructed(d, File(d), MaxTime + 1)
    /\ steps = 0
    /\ marks = [k \in RecoverKeys |-> NoMarks]
    /\ burst = NoBurst
    /\ io = NoIo(disk)
    /\ probe = NoProbe

ProbeBegins ==
    /\ \E k \in RecoverKeys, forceCheck \in BOOLEAN, adapter \in Adapters :
           ProbeStart(k[1], k[2], forceCheck, adapter)
    /\ UNCHANGED <<steps, marks, burst, io>>

RefreshDone ==
    /\ \E threw \in BOOLEAN : RefreshSettles(threw)
    /\ UNCHANGED <<steps, marks, burst, io>>

UsageDone ==
    /\ \E threw \in BOOLEAN, rawUsageData \in UsageData : UsageSettles(threw, rawUsageData)
    /\ UNCHANGED <<steps, marks, burst, io>>

ImportDone == ImportSettles /\ UNCHANGED <<steps, marks, burst, io>>

\* what a rejected generateContent call can carry: a message, or none
ChatErrors == {ProbeError, "bad request", ""}

ChatDone ==
    /\ \E ok \in BOOLEAN, message \in ChatErrors : ChatSettles(ok, IF ok THEN NULL ELSE message)
    /\ UNCHANGED <<steps, marks, burst, io>>

ClockProbe == Tick /\ UNCHANGED <<steps, marks, burst, io, probe>>

NextOfProbe ==
    \/ ProbeBegins
    \/ RefreshDone
    \/ UsageDone
    \/ ImportDone
    \/ ChatDone
    \/ ClockProbe

SpecProbe == InitProbe /\ [][NextOfProbe]_vars

(***************************************************************************)
(* The sweep specification: two families, three entries, each fresh or     *)
(* persisted unhealthy; then at most MaxSweepSteps steps: sweeps, one at a *)
(* time, whose probes settle in any way, error reports for any entry and   *)
(* clock ticks in between.                                                 *)
(***************************************************************************)
SweepPools ==
    {(OPENAI :> <<a, b>>) @@ (CLAUDE :> <<d>>) :
        a \in {MainPools[OPENAI][1], PersistedUnhealthy(MainPools[OPENAI][1])},
        b \in {MainPools[OPENAI][2], PersistedUnhealthy(MainPools[OPENAI][2])},
        d \in {[uuid |-> "D", checkHealth |-> TRUE],
               PersistedUnhealthy([uuid |-> "D", checkHealth |-> TRUE])}}

\* one probe result of each kind for each family
SweepResults ==
    {ProbeResult("null", NULL, NULL), ProbeResult("throw", NULL, ProbeError)}
    \cup {ProbeResult("success", DefaultHealthCheckModel(f), NULL) : f \in {OPENAI, CLAUDE}}
    \cup {ProbeResult("failure", DefaultHealthCheckModel(f), ProbeError) : f \in {OPENAI, CLAUDE}}

InitSweep ==
    /\ \E d \in SweepPools : Constructed(d, File(d), MaxTime + 1)
    /\ steps = 0
    /\ marks = [k \in RecoverKeys |-> NoMarks]
    /\ burst = NoBurst
    /\ io = NoIo(disk)
    /\ probe = NoProbe

\* At most MaxSweepSteps steps are taken.
MaxSweepSteps == 6

SweepBudget == steps < MaxSweepSteps

SweepAdvance == steps' = steps + 1 /\ UNCHANGED <<marks, burst, io, probe>>

SweepBegins == SweepBudget /\ performHealthChecks /\ SweepAdvance

SweepProbes ==
    /\ SweepBudget
    /\ \E result \in SweepResults : SweepProbeDone(result)
    /\ SweepAdvance

ReportError ==
    /\ SweepBudget
    /\ \E k \in RecoverKeys : markProviderUnhealthy(k[1], k[2], "timeout")
    /\ SweepAdvance

ClockSweep == SweepBudget /\ Tick /\ SweepAdvance

NextSweep ==
    \/ SweepBegins
    \/ SweepProbes
    \/ ReportError
    \/ ClockSweep

SpecSweep == InitSweep /\ [][NextSweep]_vars

(***************************************************************************)
(* The same pools with the sweep recurring, every upstream call of a probe *)
(* succeeding and the clock advancing: the supervisor's interval timer     *)
(* starts the sweeps and the host's event loop runs each continuation.  No *)
(* selection is made.                                                      *)
(***************************************************************************)
SweepRecurs == performHealthChecks /\ UNCHANGED <<steps, marks, burst, io, probe>>

\* the probe returns success, or null when the entry's checkHealth is off
SweepProbeSucceeds ==
    /\ \E result \in SweepResults :
           /\ result.kind \in {"success", "null"}
           /\ SweepProbeDone(result)
    /\ UNCHANGED <<steps, marks, burst, io, probe>>

ClockRuns == Tick /\ UNCHANGED <<steps, marks, burst, io, probe>>

NextSweepLive ==
    \/ SweepRecurs
    \/ SweepProbeSucceeds
    \/ ClockRuns

SpecSweepLive ==
    /\ InitSweep
    /\ [][NextSweepLive]_vars
    /\ WF_vars(SweepRecurs)
    /\ WF_vars(SweepProbeSucceeds)
    /\ WF_vars(ClockRuns)

(***************************************************************************)
(* The health specification: the pools of the main specification, each     *)
(* entry fresh or persisted unhealthy; then every sequence of at most      *)
(* MaxHealthSteps selections, error reports, health confirmations, counter *)
(* resets, disables, enables, sweeps, recovery completions and clock       *)
(* ticks, with one probe result of each kind.                              *)
(***************************************************************************)
\* The health specification explores sequences of at most MaxHealthSteps steps.
MaxHealthSteps == 6

InitHealth ==
    /\ \E d \in MainDocs : Constructed(d, File(d), MaxTime + 1)
    /\ steps = 0
    /\ marks = [k \in RecoverKeys |-> NoMarks]
    /\ burst = NoBurst
    /\ io = NoIo(disk)
    /\ probe = NoProbe

HealthBudget == steps < MaxHealthSteps

SelectHealth == HealthBudget /\ selectProvider(OPENAI, NULL, TRUE) /\ Advance

ReportHealth ==
    /\ HealthBudget
    /\ \E uuid \in {"A", "B"} : markProviderUnhealthy(OPENAI, uuid, "timeout")
    /\ Advance

ConfirmHealth ==
    /\ HealthBudget
    /\ \E uuid \in {"A", "B"} : markProviderHealthy(OPENAI, uuid, TRUE, NULL)
    /\ Advance

ResetHealth ==
    /\ HealthBudget
    /\ \E uuid \in {"A", "B"} : resetProviderCounters(OPENAI, uuid)
    /\ Advance

DisableHealth == HealthBudget /\ disableProvider(OPENAI, "B") /\ Advance

EnableHealth == HealthBudget /\ enableProvider(OPENAI, "B") /\ Advance

SweepHealth == HealthBudget /\ performHealthChecks /\ Advance

ProbeHealth ==
    /\ HealthBudget
    /\ \E result \in RecoverResults : SweepProbeDone(result)
    /\ Advance

RecoverHealth ==
    /\ HealthBudget
    /\ \E k \in DOMAIN recovering, result \in RecoverResults : RecoverDone(k[1], k[2], result)
    /\ Advance

ClockHealth == HealthBudget /\ Tick /\ Advance

NextHealth ==
    \/ SelectHealth
    \/ ReportHealth
    \/ ConfirmHealth
    \/ ResetHealth
    \/ DisableHealth
    \/ EnableHealth
    \/ SweepHealth
    \/ ProbeHealth
    \/ RecoverHealth
    \/ ClockHealth

SpecHealth == InitHealth /\ [][NextHealth]_vars

(***************************************************************************)
(* Properties of selection, stated on the state right after a call.        *)
(***************************************************************************)
\* the entry with that uuid in the family's list, in the current state
EntryOf(providerType, uuid) ==
    providerStatus[providerType][FindProvider(providerType, uuid)]

\* selectProvider has just returned an entry
Returned == last.op = "select" /\ ~last.threw /\ last.uuid # NULL

\* the entry lists the model in notSupportedModels
ListsModel(c, model) == "notSupportedModels" \in DOMAIN c /\ model \in c.notSupportedModels

\* the positions of the family's enabled entries that support the model
Eligible(providerType, model) ==
    IF providerType \notin DOMAIN providerStatus THEN {}
    ELSE {i \in DOMAIN providerStatus[providerType] :
             /\ ~providerStatus[providerType][i].isDisabled
             /\ Truthy(model) => ~ListsModel(providerStatus[providerType][i], model)}

\* C1: after any sequence of operations, the entry selectProvider returns is
\* not disabled, on the unhealthy-fallback path too.
C1_NeverReturnsDisabled ==
    Returned => ~EntryOf(last.family, last.uuid).isDisabled

\* selectProvider fell back to an unhealthy entry while another entry of the
\* family was disabled
C1_FallbackPastDisabled ==
    /\ Returned
    /\ ~EntryOf(last.family, last.uuid).isHealthy
    /\ \E i \in DOMAIN providerStatus[last.family] : providerStatus[last.family][i].isDisabled

\* C2: if some enabled entry supporting the requested model is healthy,
\* selectProvider returns a healthy entry; if there are such entries and none
\* is healthy, it returns one of them (unhealthy, enabled) and not null.
C2_HealthyPreferred ==
    (last.op = "select" /\ ~last.threw /\ Eligible(last.family, last.model) # {}) =>
        /\ last.uuid # NULL
        /\ FindProvider(last.family, last.uuid) \in Eligible(last.family, last.model)
        /\ EntryOf(last.family, last.uuid).isHealthy <=>
               \E i \in Eligible(last.family, last.model) :
                   providerStatus[last.family][i].isHealthy

\* selectProvider returned a healthy entry while an enabled entry supporting
\* the model was unhealthy
C2_HealthyChosenOverUnhealthy ==
    /\ Returned
    /\ EntryOf(last.family, last.uuid).isHealthy
    /\ \E i \in Eligible(last.family, last.model) : ~providerStatus[last.family][i].isHealthy

\* C3: selectProvider(F, M) returns null, and does not throw, when F is absent,
\* has no entries, has only disabled entries, or every enabled entry lists M.
C3_NullNotException ==
    (last.op = "select" /\ Eligible(last.family, last.model) = {}) =>
        last.uuid = NULL /\ ~last.threw

\* C4: for every requested model M, the entry selectProvider(F, M) returns
\* does not list M in notSupportedModels, whatever the health of the pool.
C4_NeverReturnsUnsupported ==
    (Returned /\ Truthy(last.model)) =>
        ~ListsModel(EntryOf(last.family, last.uuid), last.model)

\* selectProvider(F, M) fell back to an unhealthy entry while a healthy
\* enabled entry listed M as not supported
C4_FallbackPastUnsupported ==
    /\ Returned
    /\ Truthy(last.model)
    /\ ~EntryOf(last.family, last.uuid).isHealthy
    /\ \E i \in DOMAIN providerStatus[last.family] :
           /\ providerStatus[last.family][i].isHealthy
           /\ ~providerStatus[last.family][i].isDisabled
           /\ ListsModel(providerStatus[last.family][i], last.model)

(***************************************************************************)
(* Properties of the error and success marks.                              *)
(***************************************************************************)
\* the entry a history key names
Marked(k) == EntryOf(k[1], k[2])

\* C7 as stated: an entry that has received maxErrorCount or more
\* markProviderUnhealthy calls since construction or its last
\* markProviderHealthy is unhealthy, whatever else was called in between.
C7_EscalationAsStated ==
    \A k \in DOMAIN marks : marks[k].sinceHealthy >= maxErrorCount => ~Marked(k).isHealthy

\* C7: an entry that has received maxErrorCount or more markProviderUnhealthy
\* calls since construction, its last markProviderHealthy or its last
\* resetProviderCounters (called directly or by a sweep whose probe returned
\* null) is unhealthy; selections, disable/enable and clock ticks may interleave.
C7_EscalationWithoutReset ==
    \A k \in DOMAIN marks : marks[k].sinceReset >= maxErrorCount => ~Marked(k).isHealthy

\* an entry that started healthy has just been tripped by its
\* maxErrorCount-th error mark
C7_Tripped ==
    \E k \in DOMAIN marks :
        /\ last.op = "markUnhealthy" /\ <<last.family, last.uuid>> = k
        /\ marks[k].sinceReset = maxErrorCount
        /\ Marked(k).errorCount = maxErrorCount
        /\ ~Marked(k).isHealthy

EvenlyReturned(S) ==
    LET n == Cardinality(S)
        floor == burst.k \div n
        ceil == (burst.k + n - 1) \div n
    IN  /\ \A i \in S : Get(burst.counts, providerStatus[OPENAI][i].uuid, 0) \in {floor, ceil}
        /\ \A uuid \in DOMAIN burst.counts : FindProvider(OPENAI, uuid) \in S

\* C5 as stated: after k successive selections on a family with n >= 1 healthy
\* enabled entries and no mutation in between, whatever models the calls
\* request, each healthy enabled entry was returned floor(k/n) or ceil(k/n)
\* times, in list order.
C5_FairnessAsStated ==
    (burst.k >= 1 /\ HealthySupporting(OPENAI, NULL) # {}) =>
        EvenlyReturned(HealthySupporting(OPENAI, NULL)) /\ burst.inOrder

\* C5: after k successive selections that all request the same model of the
\* family (or all request none), with no mutation in between and n >= 1
\* healthy enabled entries supporting that model, each of those n entries was
\* returned floor(k/n) or ceil(k/n) times, in cyclic list order from wherever
\* the stored index stood.
C5_FairnessPerKey ==
    (burst.k >= 1 /\ ~burst.mixed /\ HealthySupporting(OPENAI, burst.model) # {}) =>
        EvenlyReturned(HealthySupporting(OPENAI, burst.model)) /\ burst.inKeyOrder

\* a burst of three selections over two healthy entries that began at the
\* second of them
C5_BurstFromSecond ==
    /\ burst.k = 3 /\ ~burst.mixed
    /\ Cardinality(HealthySupporting(OPENAI, burst.model)) = 2
    /\ \E i, j \in HealthySupporting(OPENAI, burst.model) :
           /\ i < j
           /\ Get(burst.counts, providerStatus[OPENAI][i].uuid, 0) = 1
           /\ Get(burst.counts, providerStatus[OPENAI][j].uuid, 0) = 2

\* the index key of a (family, model) pair, the family alone when no model is requested
KeyOf(providerType, model) ==
    IF Truthy(model) THEN providerType \o ":" \o model ELSE providerType

\* the number of candidates of a selection
CandidateCount(providerType, model) ==
    IF HealthySupporting(providerType, model) # {}
    THEN Cardinality(HealthySupporting(providerType, model))
    ELSE Cardinality(Eligible(providerType, model))

\* C6: a selectProvider call with key (family, model) that returns an entry
\* advances the index stored under that key by one modulo the candidate
\* count and leaves every other key's index as it was; a model-targeted call
\* leaves the entry the next untargeted call returns, for every family, as
\* it was.
C6_IndependentIndices ==
    [][(last'.op = "select" /\ ~last'.threw) =>
          LET key == KeyOf(last'.family, last'.model)
          IN  /\ \A other \in DOMAIN roundRobinIndex' \ {key} :
                     /\ other \in DOMAIN roundRobinIndex
                     /\ roundRobinIndex'[other] = roundRobinIndex[other]
              /\ last'.uuid # NULL =>
                     roundRobinIndex'[key] =
                         (Get(roundRobinIndex, key, 0) + 1)
                             % CandidateCount(last'.family, last'.model)
              /\ last'.uuid = NULL => roundRobinIndex' = roundRobinIndex
              /\ Truthy(last'.model) =>
                     \A providerType \in DOMAIN providerStatus :
                         SelectedPosition(providerType, NULL)'
                             = SelectedPosition(providerType, NULL)]_vars

\* a model-targeted selection has just advanced its own index while the
\* family's index stands elsewhere
C6_TargetedBesideUntargeted ==
    /\ Returned /\ Truthy(last.model)
    /\ last.family \in DOMAIN roundRobinIndex
    /\ KeyOf(last.family, last.model) \in DOMAIN roundRobinIndex
    /\ roundRobinIndex[KeyOf(last.family, last.model)] # roundRobinIndex[last.family]

(***************************************************************************)
(* Properties of the debounced save.                                       *)
(***************************************************************************)
\* no save is pending and no flush is in progress
Quiet == pendingSaves = {} /\ timers = {} /\ flushes = <<>>

\* every mutation so far fell within one window of saveDebounceTime
OneWindow == io.mutations >= 1 /\ io.latest - io.first < saveDebounceTime

\* one write was made, and the document holds the memory of every family touched
OneWriteOfLatest ==
    /\ io.writes = 1
    /\ disk.exists
    /\ \A providerType \in io.touched :
           /\ providerType \in DOMAIN disk.pools
           /\ disk.pools[providerType] = providerStatus[providerType]

AllFlushed == io.saved = DOMAIN providerStatus

\* the fields initializeProviderStatus replaces by null when they are falsy
NullIfFalsy == {"lastErrorTime", "lastHealthCheckTime", "lastHealthCheckModel",
                "lastErrorMessage", "usageInfo"}

\* the entry is in the form the manager writes: every status field present, none falsy but null
Normalised(entry) ==
    /\ StatusKeys \subseteq DOMAIN entry
    /\ \A k \in NullIfFalsy : entry[k] # ""

DefaultOf(k) ==
    CASE k = "isHealthy" -> TRUE
      [] k = "isDisabled" -> FALSE
      [] k \in {"usageCount", "errorCount"} -> 0
      [] OTHER -> NULL

SelectionReturns == last'.op = "select" /\ ~last'.threw /\ last'.uuid # NULL

\* before the call, the entry is enabled, supports the model, is unhealthy
\* and its lastErrorTime is set and at least healthCheckInterval old
CoolDownElapsed(k, providerType, model) ==
    /\ k[1] = providerType
    /\ ~Marked(k).isDisabled
    /\ Truthy(model) => ~ListsModel(Marked(k), model)
    /\ ~Marked(k).isHealthy
    /\ Marked(k).lastErrorTime # NULL
    /\ now - GetTime(Marked(k).lastErrorTime) >= healthCheckInterval

\* C11: a selectProvider call that passes filtering dispatches exactly one
\* recovery probe for each enabled, model-supporting entry that is unhealthy
\* with lastErrorTime set and at least healthCheckInterval old, and overwrites
\* its lastErrorTime with the current time; it dispatches no probe for any
\* other entry; and when the family has an eligible entry the call returns one.
C11_DispatchesExactlyTheDue ==
    [][/\ SelectionReturns =>
            \A k \in DOMAIN recovering :
                IF CoolDownElapsed(k, last'.family, last'.model)
                THEN /\ recovering'[k] = recovering[k] + 1
                     /\ Marked(k)'.lastErrorTime = ToISOString(now)
                ELSE /\ recovering'[k] = recovering[k]
                     /\ Marked(k)'.lastErrorTime = Marked(k).lastErrorTime
       /\ (last'.op = "select" /\ ~last'.threw /\ Eligible(last'.family, last'.model) # {})
            => /\ last'.uuid # NULL
               /\ FindProvider(last'.family, last'.uuid) \in Eligible(last'.family, last'.model)
      ]_vars

\* a selection for gpt-4o over two unhealthy entries has returned B and
\* dispatched B's probe alone: A lists the model
C11_FallbackDispatched ==
    /\ Returned /\ last.family = OPENAI /\ last.model = "gpt-4o" /\ last.uuid = "B"
    /\ now >= healthCheckInterval
    /\ ~Marked(<<OPENAI, "A">>).isHealthy /\ ~Marked(<<OPENAI, "B">>).isHealthy
    /\ recovering[<<OPENAI, "A">>] = 0 /\ recovering[<<OPENAI, "B">>] = 1
    /\ Marked(<<OPENAI, "A">>).lastErrorTime = ToISOString(0)
    /\ Marked(<<OPENAI, "B">>).lastErrorTime = ToISOString(now)

\* every count of probes in flight is below the model's bound
InflightInBounds == \A k \in DOMAIN recovering : recovering[k] < MaxInflight

\* C12: selection does not wait for a recovery probe: while a probe
\* dispatched by an earlier selection is in flight, a selectProvider call on
\* the same family, for any model an enabled entry supports, completes in
\* one step and returns an entry.
C12_SelectionNeverWaits ==
    \A k \in DOMAIN recovering, model \in Models :
        (recovering[k] > 0 /\ InflightInBounds /\ Eligible(k[1], model) # {})
            => ENABLED (/\ selectProvider(k[1], model, TRUE)
                        /\ last'.op = "select" /\ ~last'.threw /\ last'.uuid # NULL)

\* A's probe was dispatched at an earlier time and is still in flight, and
\* a later selection for gpt-4o has returned B
C12_SecondSelectionReturned ==
    /\ Returned /\ last.family = OPENAI /\ last.uuid = "B"
    /\ recovering[<<OPENAI, "A">>] > 0
    /\ Marked(<<OPENAI, "A">>).lastErrorTime # NULL
    /\ GetTime(Marked(<<OPENAI, "A">>).lastErrorTime) \in 1..(now - 1)

\* C15: the recovery probe does not double-fire: for every (family, uuid) at
\* most one selection-triggered recovery probe is in flight at any time,
\* under any interleaving of selections and any probe duration.
C15_AtMostOneInFlight == \A k \in DOMAIN recovering : recovering[k] <= 1

\* the entries of the recovery specifications
LiveKeys == {<<OPENAI, "A">>, <<OPENAI, "B">>}

\* the entry is enabled and unhealthy with lastErrorTime set
AwaitsRecovery(k) ==
    ~Marked(k).isDisabled /\ ~Marked(k).isHealthy /\ Truthy(Marked(k).lastErrorTime)

\* C14: if an enabled entry is unhealthy with lastErrorTime set, its recovery
\* probe would succeed, and untargeted selectProvider calls on its family keep
\* occurring as time advances, then eventually the entry is healthy with
\* errorCount 0.
C14_EventuallyRecovered ==
    \A k \in LiveKeys : AwaitsRecovery(k) ~> (Marked(k).isHealthy /\ Marked(k).errorCount = 0)

\* the probe a selection dispatched for the persisted-unhealthy entry A has
\* succeeded and A is healthy again
C14_RecoveredBySelection ==
    /\ last.op = "recover:success" /\ last.uuid = "A"
    /\ now >= healthCheckInterval
    /\ Marked(<<OPENAI, "A">>).isHealthy /\ Marked(<<OPENAI, "A">>).errorCount = 0

(***************************************************************************)
(* The probe of a usage-based family.                                      *)
(***************************************************************************)
\* the model the chat-send probe of the call in progress uses
ProbedModel == ProbeModelName(probe.family, EntryOf(probe.family, probe.uuid))

\* C13: for claude-kiro-oauth, when the adapter's getUsageLimits throws, the
\* quota query returns null: it gives no verdict and updates no entry, the
\* same call goes on to the chat-send probe, and the outcome of the chat-send
\* probe is the result of the call.
C13_QuotaErrorFallsBack ==
    [][/\ last'.op = "probe:usageThrew" =>
            /\ probe.family = KIRO /\ probe.pc = "usage"
            /\ probe'.pc = "chat" /\ probe'.attempt = 1
            /\ probe'.result = NoProbe.result
       /\ probe'.usage = "threw" => providerStatus' = providerStatus
       /\ (probe'.usage = "threw" /\ probe'.pc = "done" /\ probe.pc # "done") =>
            /\ probe.pc = "chat" /\ probe.usage = "threw"
            /\ \/ /\ last'.op = "probe:chatOk"
                  /\ probe'.result = ProbeResult("success", ProbedModel, NULL)
               \/ /\ last'.op = "probe:chatFailed"
                  /\ probe.attempt = 2
                  /\ probe'.result.kind = "failure"
                  /\ probe'.result.modelName = ProbedModel
      ]_vars

\* getUsageLimits threw for K, the first chat request failed, the second
\* succeeded, and the call has returned success with no usageInfo stored
C13_FellBackToChat ==
    /\ probe.pc = "done" /\ probe.family = KIRO /\ probe.usage = "threw"
    /\ probe.attempt = 2 /\ probe.chat = "ok"
    /\ probe.result = ProbeResult("success", DefaultHealthCheckModel(KIRO), NULL)
    /\ EntryOf(KIRO, "K").usageInfo = NULL
    /\ EntryOf(KIRO, "K").lastHealthCheckTime = NULL

(***************************************************************************)
(* Properties of overlapping and failed flushes.                           *)
(***************************************************************************)
\* C16: persistence does not lose concurrent updates: when a second flush
\* started while an earlier one was suspended on its file read or write and
\* both have finished, the document on disk holds the in-memory entry lists
\* of every family that was pending in either flush.
C16_OverlapKeepsBoth ==
    (Quiet /\ io.overlapped /\ ~io.failed) =>
        /\ disk.exists
        /\ \A providerType \in io.touched :
               /\ providerType \in DOMAIN disk.pools
               /\ disk.pools[providerType] = providerStatus[providerType]

\* C17: a failed flush leaves the state dirty: when _flushPendingSaves fails
\* on a read error other than file-not-found or on a write error, the
\* families that were pending in that flush remain pending.
C17_FailedFlushStaysPending ==
    last.op \in {"flushRead:error", "flushWrite:error"} => io.dropped \subseteq pendingSaves

(***************************************************************************)
(* Properties of the reporting and operator calls.                         *)
(***************************************************************************)
\* the calls that address one entry by family and uuid
EntryCalls == {"markUnhealthy", "markHealthy", "markHealthyReset", "resetCounters",
               "disable", "enable"}

\* the step leaves the entries, the indices and the pending saves alone
NothingChanged ==
    /\ providerStatus' = providerStatus
    /\ roundRobinIndex' = roundRobinIndex
    /\ pendingSaves' = pendingSaves

\* C18: markProviderUnhealthy, markProviderHealthy, resetProviderCounters,
\* disableProvider and enableProvider called with a missing uuid, a uuid not
\* in the family, or an unknown or empty family change no entry, no index
\* and no pending save and raise nothing; selectProvider with an empty or
\* non-string family returns null with the same frame.
C18_InvalidArgumentsAreNoOps ==
    [][/\ (last'.op \in EntryCalls /\ FindProvider(last'.family, last'.uuid) = 0)
            => ~last'.threw /\ NothingChanged
       /\ (last'.op = "select" /\ ~ValidProviderType(last'.family))
            => ~last'.threw /\ last'.uuid = NULL /\ NothingChanged
      ]_vars

\* C19: isDisabled and isHealthy are orthogonal: no call other than
\* disableProvider and enableProvider (marks, counter resets, selections,
\* sweeps, recovery completions) changes any entry's isDisabled, and
\* disableProvider and enableProvider change only isDisabled of the entry
\* addressed: its other fields and every other entry are unchanged.
C19_DisabledOrthogonalToHealth ==
    [][\A k \in DOMAIN recovering :
          IF last'.op \in {"disable", "enable"}
          THEN IF ~last'.threw /\ k = <<last'.family, last'.uuid>>
               THEN Marked(k)' = [Marked(k) EXCEPT !.isDisabled = (last'.op = "disable")]
               ELSE Marked(k)' = Marked(k)
          ELSE Marked(k)'.isDisabled = Marked(k).isDisabled
      ]_vars

\* an unhealthy entry has just been disabled and keeps its health fields
C19_UnhealthyEntryDisabled ==
    /\ last.op = "disable" /\ ~last.threw /\ last.family = OPENAI /\ last.uuid = "A"
    /\ Marked(<<OPENAI, "A">>).isDisabled
    /\ ~Marked(<<OPENAI, "A">>).isHealthy
    /\ Marked(<<OPENAI, "A">>).errorCount = maxErrorCount
    /\ Marked(<<OPENAI, "A">>).lastErrorTime = ToISOString(0)
    /\ ~Marked(<<OPENAI, "B">>).isDisabled

\* C20: in every state reachable from an initial pool in which every
\* unhealthy entry has a lastErrorTime, under any interleaving of selections,
\* error and success marks, counter resets, sweeps and recovery completions,
\* an entry with isHealthy false has a lastErrorTime that is not null.
C20_UnhealthyHasErrorTime ==
    \A k \in DOMAIN recovering : ~Marked(k).isHealthy => Marked(k).lastErrorTime # NULL

\* an entry loaded healthy has been tripped by error marks after the clock
\* moved on, and carries the time of the last one
C20_TrippedWithTime ==
    /\ last.op = "markUnhealthy" /\ ~last.threw /\ last.uuid = "B"
    /\ io.loaded.pools[OPENAI][2] = MainPools[OPENAI][2]
    /\ now > 0
    /\ ~Marked(<<OPENAI, "B">>).isHealthy
    /\ Marked(<<OPENAI, "B">>).lastErrorTime = ToISOString(now)

(***************************************************************************)
(* Usage accounting.                                                       *)
(***************************************************************************)
\* the step changes neither usageCount nor lastUsed of the entry
UsageKept(k) ==
    /\ Marked(k)'.usageCount = Marked(k).usageCount
    /\ Marked(k)'.lastUsed = Marked(k).lastUsed

\* C21: a selectProvider call without skipUsageCount that returns entry e
\* adds exactly 1 to e.usageCount, sets e.lastUsed to the current time,
\* schedules a save of the family and leaves the usage fields of every other
\* entry alone; with skipUsageCount no usage field changes and no save is
\* scheduled; in both cases the round-robin index of the key advances.
C21_UsageCountedOncePerReturn ==
    [][\A providerType \in Families, model \in Models, skipUsageCount \in BOOLEAN :
          (selectProvider(providerType, model, skipUsageCount) /\ last'.uuid # NULL) =>
              /\ roundRobinIndex'[KeyOf(providerType, model)] =
                     (Get(roundRobinIndex, KeyOf(providerType, model), 0) + 1)
                         % CandidateCount(providerType, model)
              /\ IF skipUsageCount THEN UNCHANGED <<pendingSaves, saveTimer, timers>>
                 ELSE /\ providerType \in pendingSaves'
                      /\ saveTimer' = now + saveDebounceTime
                      /\ saveTimer' \in timers'
              /\ \A k \in DOMAIN recovering :
                    IF skipUsageCount \/ k # <<providerType, last'.uuid>>
                    THEN UsageKept(k)
                    ELSE /\ Marked(k)'.usageCount = Marked(k).usageCount + 1
                         /\ Marked(k)'.lastUsed = ToISOString(now)
      ]_vars

\* three counted selections have returned A, B, A
C21_CountsFollowReturns ==
    /\ Returned /\ last.uuid = "A"
    /\ Marked(<<OPENAI, "A">>).usageCount = 2
    /\ Marked(<<OPENAI, "B">>).usageCount = 1
    /\ Marked(<<OPENAI, "A">>).lastUsed = ToISOString(now)
    /\ OPENAI \in pendingSaves

(***************************************************************************)
(* Completion of a selection-triggered recovery probe.                     *)
(***************************************************************************)
\* the fields a failed recovery may rewrite
FailureFields == {"lastErrorMessage", "lastHealthCheckTime", "lastHealthCheckModel"}

\* the step is the completion of the recovery probe of entry k
Completes(k, kind) ==
    last'.op = "recover:" \o kind /\ last'.family = k[1] /\ last'.uuid = k[2]

\* C22: when a selection-triggered recovery probe completes with failure,
\* the completion leaves the entry's errorCount, isHealthy, lastErrorTime,
\* usageCount, isDisabled and every field other than lastErrorMessage,
\* lastHealthCheckTime and lastHealthCheckModel unchanged, records the
\* failure in those, leaves the other entries alone and schedules a save of
\* the family.
C22_FailedRecoveryFrame ==
    [][\A k \in DOMAIN recovering :
          Completes(k, "failure") =>
              /\ DOMAIN Marked(k)' = DOMAIN Marked(k)
              /\ \A f \in DOMAIN Marked(k) \ FailureFields : Marked(k)'[f] = Marked(k)[f]
              /\ Marked(k)'.lastHealthCheckTime = ToISOString(now)
              /\ Marked(k)'.lastErrorMessage = ProbeError
              /\ \A j \in DOMAIN recovering \ {k} : Marked(j)' = Marked(j)
              /\ k[1] \in pendingSaves'
              /\ saveTimer' = now + saveDebounceTime /\ saveTimer' \in timers'
      ]_vars

\* B's recovery probe, dispatched at an earlier time, has just failed: B is
\* as unhealthy as it was persisted, with the failure recorded
C22_RecoveryFailed ==
    /\ last.op = "recover:failure" /\ last.uuid = "B"
    /\ ~Marked(<<OPENAI, "B">>).isHealthy
    /\ Marked(<<OPENAI, "B">>).errorCount = maxErrorCount
    /\ Marked(<<OPENAI, "B">>).usageCount = 0
    /\ GetTime(Marked(<<OPENAI, "B">>).lastErrorTime) \in 1..(now - 1)
    /\ Marked(<<OPENAI, "B">>).lastErrorMessage = ProbeError
    /\ Marked(<<OPENAI, "B">>).lastHealthCheckTime = ToISOString(now)
    /\ Marked(<<OPENAI, "B">>).lastHealthCheckModel = DefaultHealthCheckModel(OPENAI)
    /\ OPENAI \in pendingSaves

\* the entry is healthy with its error fields cleared
Cleared(c) ==
    c.isHealthy /\ c.errorCount = 0 /\ c.lastErrorTime = NULL /\ c.lastErrorMessage = NULL

EntryAtSlot(k) == providerStatus[Slots[k][1]][Slots[k][2]]

\* the entry is unhealthy and its lastErrorTime is less than
\* healthCheckInterval before the start of the sweep
CoolingDown(c, start) ==
    /\ ~c.isHealthy
    /\ c.lastErrorTime # NULL
    /\ start - GetTime(c.lastErrorTime) < healthCheckInterval

SweepCompletions == {"sweep:null", "sweep:success", "sweep:failure", "sweep:throw"}

\* the sweep that started at `start` moves on from place `from`: it passes
\* over entries that are cooling down, and only those, and hands the next
\* entry to the probe, or ends
SweepMovesOn(from, start) ==
    /\ sweep'.active => sweep'.at > from /\ sweep'.now = start
    /\ \A j \in DOMAIN Slots :
          j > from =>
             IF sweep'.active /\ j = sweep'.at THEN ~CoolingDown(EntryAtSlot(j)', start)
             ELSE IF ~sweep'.active \/ j < sweep'.at THEN CoolingDown(EntryAtSlot(j)', start)
             ELSE TRUE

\* C24: performHealthChecks never hands to the probe an entry that, when the
\* sweep reaches it, is unhealthy with a lastErrorTime less than
\* healthCheckInterval before the sweep's start, and changes no field of it;
\* every other entry of every family is handed to the probe exactly once per
\* sweep, in order.
C24_SweepSkipsOnlyCoolingDown ==
    [][/\ last'.op = "sweepStart" =>
            /\ ~sweep.active
            /\ SweepMovesOn(0, now)
            /\ providerStatus' = providerStatus
       /\ last'.op \in SweepCompletions =>
            /\ sweep.active
            /\ last'.family = Slots[sweep.at][1]
            /\ last'.uuid = EntryAtSlot(sweep.at).uuid
            /\ SweepMovesOn(sweep.at, sweep.now)
            /\ \A j \in DOMAIN Slots \ {sweep.at} : EntryAtSlot(j)' = EntryAtSlot(j)
       /\ last'.op \notin SweepCompletions \cup {"sweepStart"} => sweep' = sweep
      ]_vars

\* a sweep has passed over A, which was persisted unhealthy and is cooling
\* down, has probed B and is probing D
C24_SkippedAndProbed ==
    /\ sweep.active /\ sweep.at = 3
    /\ last.op \in SweepCompletions /\ last.uuid = "B"
    /\ CoolingDown(Marked(<<OPENAI, "A">>), sweep.now)
    /\ Marked(<<OPENAI, "A">>) = InitProviderConfig(PersistedUnhealthy(MainPools[OPENAI][1]))

\* the entries of the sweep specifications, and those whose checkHealth is on
SweptKeys == {<<OPENAI, "A">>, <<OPENAI, "B">>, <<CLAUDE, "D">>}

CheckedKeys == {<<OPENAI, "A">>, <<CLAUDE, "D">>}

Buckets(formattedUsage) ==
    LET b == formattedUsage.usageBreakdown
    IN  {[at |-> i, nth |-> 0, used |-> b[i].currentUsage, limit |-> b[i].usageLimit] :
            i \in DOMAIN b}
        \cup {[at |-> i, nth |-> -1, used |-> b[i].freeTrial.currentUsage,
               limit |-> b[i].freeTrial.usageLimit] :
                 i \in {j \in DOMAIN b : b[j].freeTrial.status = "ACTIVE"}}
        \cup UNION {{[at |-> i, nth |-> n, used |-> b[i].bonuses[n].currentUsage,
                      limit |-> b[i].bonuses[n].usageLimit] :
                        n \in {j \in DOMAIN b[i].bonuses : b[i].bonuses[j].status = "ACTIVE"}} :
                    i \in DOMAIN b}

RECURSIVE SumUsed(_)
SumUsed(buckets) ==
    IF buckets = {} THEN 0
    ELSE LET x == CHOOSE y \in buckets : TRUE IN x.used + SumUsed(buckets \ {x})

RECURSIVE SumLimit(_)
SumLimit(buckets) ==
    IF buckets = {} THEN 0
    ELSE LET x == CHOOSE y \in buckets : TRUE IN x.limit + SumLimit(buckets \ {x})

OpenBucket(x) == x.limit > 0 /\ x.used < x.limit

\* the usageInfo text says so much used, so much limit and so much remaining
SaysRemaining(usageInfo, used, limit, remaining) ==
    \E pct \in 0..200 :
        usageInfo = ToString([used |-> used, limit |-> limit, remaining |-> remaining,
                              usagePercent |-> pct])

FullBucket == [parsable |-> TRUE, usageBreakdown |-> <<Breakdown(100, 100, NoQuota, << >>)>>]

\* C26: when the quota probe delivers its verdict on parsed usage data, the
\* used and limit totals are the sums over the contributing buckets, the
\* verdict is success exactly when some contributing bucket is open (limit > 0
\* and used < limit) and total limit - total used > 0, the recorded
\* usageInfo.remaining is total limit - total used, and a single bucket of
\* 100 used out of 100 gives an unhealthy verdict with remaining 0.
C26_QuotaVerdict ==
    [][(last'.op = "probe:verdict" /\ probe.raw.parsable) =>
         LET buckets == Buckets(probe.raw)
             used == SumUsed(buckets)
             limit == SumLimit(buckets)
             usageInfo == EntryOf(probe.family, probe.uuid)'.usageInfo
         IN  /\ (probe'.result.kind = "success")
                    <=> ((\E x \in buckets : OpenBucket(x)) /\ limit - used > 0)
             /\ probe'.result.kind \in {"success", "failure"}
             /\ SaysRemaining(usageInfo, used, limit, limit - used)
             /\ probe.raw = FullBucket =>
                    /\ probe'.result.kind = "failure"
                    /\ SaysRemaining(usageInfo, 100, 100, 0)]_vars

\* the verdict on the single 100-of-100 bucket has just been delivered: failure
C26_FullBucketUnhealthy ==
    /\ last.op = "probe:verdict"
    /\ probe.raw = FullBucket
    /\ probe.result.kind = "failure"
    /\ SaysRemaining(EntryOf(probe.family, probe.uuid).usageInfo, 100, 100, 0)

(***************************************************************************)
(* The chat-send probe.                                                    *)
(***************************************************************************)
\* the payload shapes of a family, in the order they are to be tried
ShapesOf(providerType) ==
    IF providerType = KIRO THEN <<"messages", "contents">> ELSE <<"messages">>

\* the adapter calls made so far are the first shapes of the family's list,
\* in list order, and never more than the list holds
InListOrder(p) ==
    /\ Len(p.sent) <= Len(ShapesOf(p.family))
    /\ p.sent = SubSeq(ShapesOf(p.family), 1, Len(p.sent))

\* one adapter call of the chat-send probe settles: a success ends the probe
\* with success and the resolved model name, a failure of a shape that is not
\* the last sends the next shape, a failure of the last shape ends the probe
\* with the given error message
ChatProbeStep(errorMessage) ==
    /\ (probe'.pc = "chat" \/ probe.pc = "chat") => InListOrder(probe')
    /\ last'.op = "probe:chatOk" =>
           /\ probe'.pc = "done" /\ probe'.sent = probe.sent
           /\ probe'.result = ProbeResult("success", ProbedModel, NULL)
    /\ last'.op = "probe:chatFailed" =>
           IF Len(probe.sent) = Len(ShapesOf(probe.family))
           THEN /\ probe'.pc = "done" /\ probe'.sent = probe.sent
                /\ probe'.result = ProbeResult("failure", ProbedModel, errorMessage)
           ELSE /\ probe'.pc = "chat" /\ probe'.result = NoProbe.result
                /\ Len(probe'.sent) = Len(probe.sent) + 1

\* C27 as stated: the probe tries the family's payload shapes in list order
\* (claude-kiro-oauth: messages then contents; every other family: one
\* shape), stops at the first adapter call that succeeds and returns success
\* with the resolved model name, returns failure exactly when every shape
\* failed, after at most as many calls as there are shapes, and the failure
\* carries the last error's message.
C27_ChatOrderLastMessage == [][ChatProbeStep(probe'.lastError)]_vars

\* C27: the same, where the failure carries the last error's message if that
\* error has a non-empty message and the text "All health check attempts
\* failed" if it has none.
C27_ChatOrderMessageOrDefault ==
    [][ChatProbeStep(IF probe'.lastError \in {"", NULL}
                     THEN "All health check attempts failed"
                     ELSE probe'.lastError)]_vars

\* both shapes of K were sent in order and both calls failed, the last with
\* an error that has no message: the probe has returned failure with the
\* default text
C27_BothShapesFailed ==
    /\ last.op = "probe:chatFailed"
    /\ probe.pc = "done" /\ probe.family = KIRO
    /\ probe.sent = <<"messages", "contents">>
    /\ probe.lastError = ""
    /\ probe.result = ProbeResult("failure", DefaultHealthCheckModel(KIRO),
                                  "All health check attempts failed")

(***************************************************************************)
(* The quota query's token refresh.                                        *)
(***************************************************************************)
\* getUsageLimits is being called in this step
CallsGetUsageLimits == probe'.pc = "usage" /\ probe.pc # "usage"

\* a refresh failure leaves the entries alone and the probe goes on to call
\* getUsageLimits; no second refresh is ever made
RefreshFailureHarmless ==
    /\ last'.op = "probe:refreshFailed" =>
           /\ CallsGetUsageLimits
           /\ providerStatus' = providerStatus
           /\ probe'.result = NoProbe.result
    /\ Len(probe'.refreshes) <= 1

\* C28 as stated: exactly one credential refresh is attempted before
\* getUsageLimits is invoked (forceRefreshToken when the adapter exposes it,
\* otherwise refreshToken), getUsageLimits is never invoked before that
\* attempt has finished, and a refresh failure neither aborts the probe nor
\* changes the entry: getUsageLimits is still invoked.
C28_ExactlyOneRefresh ==
    [][/\ CallsGetUsageLimits =>
            /\ Len(probe'.refreshes) = 1
            /\ probe'.refreshes[1] = IF probe'.adapter.forceRefreshToken
                                     THEN "forceRefreshToken" ELSE "refreshToken"
            /\ probe'.refreshed \in {"ok", "failed"}
       /\ RefreshFailureHarmless]_vars

\* C28: when the adapter exposes forceRefreshToken or refreshToken, exactly
\* one refresh is attempted before getUsageLimits is invoked
\* (forceRefreshToken when exposed, otherwise refreshToken) and
\* getUsageLimits is not invoked before that attempt has finished; when the
\* adapter exposes neither, getUsageLimits is invoked with no refresh
\* attempted; a refresh failure neither aborts the probe nor changes the
\* entry: getUsageLimits is still invoked.
C28_OneRefreshIfExposed ==
    [][/\ CallsGetUsageLimits =>
            IF probe'.adapter.forceRefreshToken \/ probe'.adapter.refreshToken
            THEN /\ probe'.refreshes = <<IF probe'.adapter.forceRefreshToken
                                         THEN "forceRefreshToken" ELSE "refreshToken">>
                 /\ probe'.refreshed \in {"ok", "failed"}
                 /\ probe.pc = "refresh"
            ELSE /\ probe'.refreshes = << >> /\ probe'.refreshed = "none"
       /\ RefreshFailureHarmless]_vars

\* the adapter exposes both methods, forceRefreshToken was called and failed,
\* and getUsageLimits has just been called with K's entry as it was loaded
C28_RefreshFailedProbeGoesOn ==
    /\ last.op = "probe:refreshFailed"
    /\ probe.pc = "usage" /\ probe.family = KIRO
    /\ probe.adapter.forceRefreshToken /\ probe.adapter.refreshToken
    /\ probe.refreshes = <<"forceRefreshToken">> /\ probe.refreshed = "failed"
    /\ EntryOf(KIRO, "K").isHealthy /\ EntryOf(KIRO, "K").errorCount = 0

(***************************************************************************)
(* The frame of a flush.                                                   *)
(***************************************************************************)
\* the document a flush whose read settles now has read
DocumentRead == IF disk.exists THEN disk.pools ELSE << >>

\* the flush that read the document read and has typesToSave pending hands
\* the document doc to writeFile: the pending families that have a pool hold
\* their in-memory lists, every other key of the document read is there with
\* the value read, and there is no other key
RewritesOnlyPending(doc, read, typesToSave) ==
    LET held == typesToSave \cap DOMAIN providerStatus
    IN  /\ DOMAIN doc = DOMAIN read \cup held
        /\ \A providerType \in held : doc[providerType] = providerStatus[providerType]
        /\ \A key \in DOMAIN read \ held : doc[key] = read[key]

\* C29: a flush takes the pending set as its snapshot and clears it; the
\* document it writes differs from the document it read only in the entry
\* lists of the snapshot's families, which hold the in-memory lists: the
\* lists of all other families and the other top-level keys are written back
\* unchanged, and a family of the snapshot with no in-memory pool keeps the
\* value the document had for it, or stays absent.
C29_FlushFrame ==
    [][/\ (last'.op = "flushStart" /\ pendingSaves # {}) =>
            /\ pendingSaves' = {}
            /\ Len(flushes') = Len(flushes) + 1
            /\ flushes'[Len(flushes')].typesToSave = pendingSaves
            /\ disk' = disk
       /\ \A i \in DOMAIN flushes :
            (last'.op \in {"flushRead:ok", "flushRead:ENOENT"}
                /\ flushes[i].stage = "read" /\ flushes'[i].stage = "write") =>
                /\ flushes'[i].typesToSave = flushes[i].typesToSave
                /\ RewritesOnlyPending(flushes'[i].content, DocumentRead,
                                       flushes[i].typesToSave)
       /\ last'.op = "flushWrite:ok" =>
            \E i \in DOMAIN flushes :
                /\ flushes[i].stage = "write"
                /\ disk' = File(flushes[i].content)
       /\ (last'.op \notin {"flushWrite:ok"}) => disk' = disk
      ]_vars

\* one flush saved openai-custom and the family with no pool together: the
\* document holds the new openai-custom list, and the lists of the other
\* family, of the family with no pool and the top-level note as loaded
C29_UnknownFamilySkipped ==
    /\ last.op = "flushWrite:ok"
    /\ io.loaded.exists
    /\ io.touched = {OPENAI, KIRO} /\ io.writes = 1 /\ ~io.failed
    /\ pendingSaves = {} /\ flushes = << >>
    /\ disk.pools[OPENAI] = providerStatus[OPENAI]
    /\ disk.pools[OPENAI] # io.loaded.pools[OPENAI]
    /\ disk.pools[CLAUDE] = io.loaded.pools[CLAUDE]
    /\ disk.pools[KIRO] = io.loaded.pools[KIRO]
    /\ disk.pools[TopLevelNote] = "edited by hand"

(***************************************************************************)
(* Persistence, in the long run.                                           *)
(***************************************************************************)
\* at most one timer is armed, and one is armed whenever a save is pending
OneTimerWhilePending ==
    /\ Cardinality(timers) <= 1
    /\ pendingSaves # {} => saveTimer \in timers

\* the document holds the in-memory list of every family that was scheduled
HoldsScheduled ==
    /\ disk.exists
    /\ \A providerType \in io.touched :
           /\ providerType \in DOMAIN disk.pools
           /\ disk.pools[providerType] = providerStatus[providerType]

\* once mutations have stopped a flush runs and nothing stays pending
EventuallyFlushed == <>[](pendingSaves = {} /\ timers = {} /\ flushes = << >>)

\* C30: at most one debounce timer is armed at any time and a timer is armed
\* whenever the pending set is non-empty; once mutations stop, a flush
\* eventually runs and the pending set becomes empty, and if no file read or
\* write failed the document then holds the final in-memory state of every
\* family that was scheduled.
C30_PersistenceLiveness ==
    /\ []OneTimerWhilePending
    /\ EventuallyFlushed
    /\ <>[](io.mutations > 0 /\ ~io.failed => HoldsScheduled)

\* the first two parts alone
TimerAndDrain == []OneTimerWhilePending /\ EventuallyFlushed

(***************************************************************************)
(* Health and the error count.                                             *)
(***************************************************************************)
\* the manager was constructed from a pool of healthy entries with no error
InitiallyHealthy == io.loaded.pools = MainPools

\* C31: with maxErrorCount >= 1 and an initial pool of healthy entries with
\* errorCount 0, every entry that is healthy has errorCount < maxErrorCount.
C31_HealthyBelowThreshold ==
    (maxErrorCount >= 1 /\ InitiallyHealthy) =>
        \A k \in RecoverKeys : Marked(k).isHealthy => Marked(k).errorCount < maxErrorCount

\* an error was just reported for A, which is one error short of the
\* threshold and still healthy, while B has reached it and is unhealthy
C31_OneShortOfThreshold ==
    /\ InitiallyHealthy
    /\ last.op = "markUnhealthy" /\ last.uuid = "A"
    /\ Marked(<<OPENAI, "A">>).isHealthy
    /\ Marked(<<OPENAI, "A">>).errorCount = maxErrorCount - 1
    /\ ~Marked(<<OPENAI, "B">>).isHealthy
    /\ Marked(<<OPENAI, "B">>).errorCount = maxErrorCount

\* the entry the last step was about
LastKey == <<last.family, last.uuid>>

\* C32 as stated: no entry is still healthy right after a probe of it (by the
\* sweep or by a selection-triggered recovery) returned success = false.
C32_UnhealthyAfterFailedProbe ==
    (last.op \in {"sweep:failure", "recover:failure"} /\ LastKey \in RecoverKeys) =>
        ~Marked(LastKey).isHealthy

\* C32: a sweep probe that returned success = false counts as one error: the
\* entry's errorCount goes up by one and the entry is healthy afterwards
\* exactly when it was healthy before and errorCount is still below
\* maxErrorCount; a selection-triggered recovery probe that returned
\* success = false changes neither isHealthy nor errorCount; a probe that
\* returned success leaves the entry healthy with errorCount 0.
C32_FailedProbeCountsAsOneError ==
    [][\A k \in RecoverKeys :
          k = <<last'.family, last'.uuid>> =>
            /\ last'.op = "sweep:failure" =>
                 /\ Marked(k)'.errorCount = Marked(k).errorCount + 1
                 /\ Marked(k)'.isHealthy <=>
                        (Marked(k).isHealthy /\ Marked(k)'.errorCount < maxErrorCount)
            /\ last'.op = "recover:failure" =>
                 /\ Marked(k)'.isHealthy = Marked(k).isHealthy
                 /\ Marked(k)'.errorCount = Marked(k).errorCount
            /\ last'.op \in {"sweep:success", "recover:success"} =>
                 /\ Marked(k)'.isHealthy
                 /\ Marked(k)'.errorCount = 0]_vars

\* the sweep's probe of A has just returned failure: A has one error, below
\* the threshold, and is still healthy
C32_HealthyAfterFailedSweepProbe ==
    /\ last.op = "sweep:failure" /\ last.uuid = "A"
    /\ Marked(<<OPENAI, "A">>).isHealthy
    /\ Marked(<<OPENAI, "A">>).errorCount = 1
    /\ Marked(<<OPENAI, "A">>).lastErrorMessage = ProbeError

(***************************************************************************)
(* Dirty tracking.                                                         *)
(***************************************************************************)
\* the entry lists as the constructor left them; where no flush has started,
\* these are what the last snapshot of every family would have held
AsConstructed == initializeProviderStatus(io.loaded.pools)

\* a save of the family is pending with the timer armed, or a flush that
\* holds the family is in progress
SaveUnderWay(providerType) ==
    \/ providerType \in pendingSaves /\ saveTimer \in timers
    \/ \E i \in DOMAIN flushes : providerType \in flushes[i].typesToSave

\* C33: if a persisted field of an entry of a family has been modified in
\* memory since the family's last flush snapshot (here: since construction,
\* no flush having started), then the family is pending with the timer armed
\* or a flush containing it is in progress; this includes the lastErrorTime
\* overwrite made by a selection with skipUsageCount = true.
C33_ModifiedFamilyIsPending ==
    flushes = << >> /\ io.writes = 0 =>
        \A providerType \in DOMAIN providerStatus :
            providerStatus[providerType] # AsConstructed[providerType] =>
                SaveUnderWay(providerType)

(***************************************************************************)
(* A recovery probe that completes late.                                   *)
(***************************************************************************)
\* C34: the failure branch of a selection-triggered recovery probe modifies
\* only an entry that is still unhealthy when the probe completes: if the
\* entry was marked healthy while the probe was in flight, the late failure
\* leaves its lastErrorMessage null and its other fields unchanged.
C34_LateFailureLeavesHealthyEntry ==
    [][\A k \in RecoverKeys :
          (last'.op = "recover:failure" /\ k = <<last'.family, last'.uuid>>
              /\ Marked(k).isHealthy) =>
                /\ Marked(k)'.lastErrorMessage = NULL
                /\ Marked(k)' = Marked(k)]_vars

(***************************************************************************)
(* Unhealthy entries and the error count.                                  *)
(***************************************************************************)
\* C35 as stated: starting from a pool of healthy entries with errorCount 0,
\* in every state reachable by selections, reports, confirmations, counter
\* resets, disables, enables, sweeps and recovery completions, every entry
\* that is unhealthy has errorCount >= maxErrorCount.
C35_UnhealthyAtThreshold ==
    InitiallyHealthy =>
        \A k \in RecoverKeys : ~Marked(k).isHealthy => Marked(k).errorCount >= maxErrorCount

\* C35: starting from a pool of healthy entries with errorCount 0, errorCount
\* is the number of errors reported for the entry since it was last marked
\* healthy or had its counters reset (by resetProviderCounters or by a sweep
\* whose probe returned null); every unhealthy entry has had at least
\* maxErrorCount errors reported since it was last healthy, and its
\* errorCount is below maxErrorCount only if its counters were reset since.
C35_UnhealthyAfterThresholdErrors ==
    InitiallyHealthy =>
        \A k \in RecoverKeys :
            /\ Marked(k).errorCount = marks[k].sinceReset
            /\ ~Marked(k).isHealthy =>
                 /\ marks[k].sinceHealthy >= maxErrorCount
                 /\ \/ Marked(k).errorCount >= maxErrorCount
                    \/ marks[k].sinceReset < marks[k].sinceHealthy

\* B reached the threshold and, its cool-down over, a sweep's probe of it
\* returned null: B is unhealthy with errorCount 0
C35_UnhealthyWithCountersReset ==
    /\ InitiallyHealthy
    /\ last.op = "sweep:null" /\ last.uuid = "B"
    /\ ~Marked(<<OPENAI, "B">>).isHealthy
    /\ Marked(<<OPENAI, "B">>).errorCount = 0
    /\ marks[<<OPENAI, "B">>].sinceHealthy = maxErrorCount

=============================================================================
